---------------------------- MODULE Spec2Model ----------------------------
(***************************************************************************)
(* A model of the tree mutation engine of trilium (src/services/notes.js): *)
(* notes placed into a tree by branches, annotated by attributes, soft     *)
(* deleted under a deleteId, undeleted by deleteId, created with gap       *)
(* spaced positions; and of the consistency checker that scans the store   *)
(* and repairs it (src/services/consistency_checks.js).                    *)
(*                                                                         *)
(* The store is tables, each a function from the ids of the rows that      *)
(* exist to the row.  Every operation of notes.js is an operator from a    *)
(* store (and the call's arguments) to the store it leaves, the value it   *)
(* returns and whether it threw; the actions apply these operators to the  *)
(* variables.  A run of the checker is a sequence of steps, one for each   *)
(* method runAllChecksAndFixers calls.                                     *)
(***************************************************************************)
EXTENDS Integers, Sequences, FiniteSets, TLC

VARIABLES
    notes,        \* noteId -> [type, mime, title, isProtected, isDeleted, deleteId]
    contents,     \* noteId -> the links the note's content holds (note_contents)
    branches,     \* branchId -> [noteId, parentNoteId, notePosition, isDeleted, deleteId]
    attributes,   \* attributeId -> [noteId, type, name, value, isInheritable, isDeleted, deleteId]
    calls,        \* the number of calls so far that changed the store
    entity_changes, \* the change journal: the <<entityName, entityId>> recorded
    checker,      \* the ConsistencyChecks object and the position of its run
    sync_mutex,   \* the exclusive section: held or not, the runChecks calls
                  \* waiting for it and those whose doExclusively has settled
    ws,           \* the messages sent to all clients
    treeCache,    \* the frontend's notes (NoteShort) and attributes
    noteAttributeCache,  \* the memoized attribute lists, by noteId
    now,          \* Date.now(), in units of the retention time
    note_revisions,           \* the revisions: [noteId, utcDateCreated]
    downloadImagePromises,    \* url -> the state of the download promise
    imageUrlToNoteIdMapping,  \* url -> the image note saved for it
    getImage,     \* url -> the request.getImage calls that have not returned
    timers        \* the patch-ups waiting for the downloads and the timeout

vars == <<notes, contents, branches, attributes, calls, entity_changes, checker,
          sync_mutex, ws, treeCache, noteAttributeCache, now, note_revisions,
          downloadImagePromises, imageUrlToNoteIdMapping, getImage, timers>>

\* the state of the image downloads
images == <<downloadImagePromises, imageUrlToNoteIdMapping, getImage, timers>>

\* the state that saving a note changes besides the store
editing == <<note_revisions, images>>

\* the state of the frontend
frontend == <<treeCache, noteAttributeCache>>

---------------------------------------------------------------------------
(* Bounds of the model *)

\* distinct deleteIds the callers pass
NumDeleteIds == 2
\* calls of one behaviour that change the store
MaxCalls == 3
\* calls of one behaviour that create a note or shift positions
MaxCreateCalls == 1
\* calls of one behaviour that duplicate a subtree
MaxDuplicateCalls == 1

---------------------------------------------------------------------------
(* Identifiers *)

\* the gap between the positions of siblings
POSITION_GAP == 10

ROOT == "root"
NONE == "none"
\* a deleteId no call passes: the deleteId column of a row never deleted (NULL)
NoDeleteId == "null"

\* the notes of the initial trees besides root, in the order that keeps the
\* trees acyclic: a note's parents come before it
InitialNoteSeq == <<"n1", "n2", "n3">>
InitialNoteIds == {InitialNoteSeq[i] : i \in DOMAIN InitialNoteSeq}

DeleteIdName(i) == "D" \o ToString(i)
DeleteIds == {DeleteIdName(i) : i \in 1..NumDeleteIds}
BranchName(parentNoteId, noteId) == parentNoteId \o "_" \o noteId

Store == [notes |-> notes, contents |-> contents, branches |-> branches,
          attributes |-> attributes]

---------------------------------------------------------------------------
(* Queries of the Note entity and of the repository *)

\* repository.getNote(noteId): the row, deleted or not, or nothing
noteExists(S, noteId) == noteId \in DOMAIN S.notes

\* Note.getBranches(): the non-deleted branches placing the note
getBranches(S, noteId) ==
    {b \in DOMAIN S.branches :
        S.branches[b].noteId = noteId /\ ~S.branches[b].isDeleted}

\* Note.getChildBranches() as a set: the non-deleted branches under the note
childBranchSet(S, noteId) ==
    {b \in DOMAIN S.branches :
        S.branches[b].parentNoteId = noteId /\ ~S.branches[b].isDeleted}

\* the rows of a set of branches ORDER BY notePosition
RECURSIVE orderByPosition(_, _)
orderByPosition(S, bs) ==
    IF bs = {} THEN <<>>
    ELSE LET first == CHOOSE b \in bs :
                 \A c \in bs : S.branches[b].notePosition <= S.branches[c].notePosition
         IN <<first>> \o orderByPosition(S, bs \ {first})

\* Note.getChildBranches(): non-deleted child branches ordered by position
getChildBranches(S, noteId) == orderByPosition(S, childBranchSet(S, noteId))

\* Note.getOwnedAttributes(): the non-deleted attributes the note owns
getOwnedAttributes(S, noteId) ==
    {a \in DOMAIN S.attributes :
        S.attributes[a].noteId = noteId /\ ~S.attributes[a].isDeleted}

\* Note.getTargetRelations(): the non-deleted relations whose value is the note
getTargetRelations(S, noteId) ==
    {a \in DOMAIN S.attributes :
        /\ S.attributes[a].type = "relation"
        /\ S.attributes[a].value = noteId
        /\ ~S.attributes[a].isDeleted}

\* an arbitrary enumeration of a set of rows (a query with no ORDER BY)
RECURSIVE rowsOf(_)
rowsOf(s) ==
    IF s = {} THEN <<>>
    ELSE LET x == CHOOSE y \in s : TRUE IN <<x>> \o rowsOf(s \ {x})

\* what a call leaves: the store, the value returned, whether it threw
Outcome(S, ret, threw) == [S |-> S, ret |-> ret, threw |-> threw]

---------------------------------------------------------------------------
(* deleteBranch *)

markBranchDeleted(S, branchId, deleteId) ==
    [S EXCEPT !.branches[branchId].isDeleted = TRUE,
              !.branches[branchId].deleteId = deleteId]

markNoteDeleted(S, noteId, deleteId) ==
    [S EXCEPT !.notes[noteId].isDeleted = TRUE,
              !.notes[noteId].deleteId = deleteId]

\* mutant: the attributes are flagged deleted but keep their old deleteId
markAttributesDeleted_keepDeleteId(S, as, deleteId) ==
    [S EXCEPT !.attributes =
        [a \in DOMAIN S.attributes |->
            IF a \in as
            THEN [S.attributes[a] EXCEPT !.isDeleted = TRUE]
            ELSE S.attributes[a]]]

markAttributesDeleted(S, as, deleteId) ==
    [S EXCEPT !.attributes =
        [a \in DOMAIN S.attributes |->
            IF a \in as
            THEN [S.attributes[a] EXCEPT !.isDeleted = TRUE, !.deleteId = deleteId]
            ELSE S.attributes[a]]]

\* mutant: only an absent branch is skipped
isAbsentOrDeleted_absentOnly(S, branchId) == branchId \notin DOMAIN S.branches

\* `!branch || branch.isDeleted`: an absent branch is an id not in the table
isAbsentOrDeleted(S, branchId) ==
    branchId \notin DOMAIN S.branches \/ S.branches[branchId].isDeleted

\* the branch or note is root, or the note is the hoisted note
isRootOrHoisted(S, branchId, hoistedNoteId) ==
    \/ branchId = ROOT
    \/ S.branches[branchId].noteId = ROOT
    \/ S.branches[branchId].noteId = hoistedNoteId

\* mutant: the note is deleted although one other branch still places it
noBranchLeft_atMostOne(S, noteId) == Cardinality(getBranches(S, noteId)) <= 1

\* `notDeletedBranches.length === 0`, read after the branch was saved
noBranchLeft(S, noteId) == getBranches(S, noteId) = {}

\* mutant: the child branches are not visited
deleteChildBranches_skipped(S, childBranches, deleteId, hoistedNoteId) ==
    Outcome(S, FALSE, FALSE)

RECURSIVE deleteBranch(_, _, _, _)
RECURSIVE deleteChildBranches(_, _, _, _)

\* the loop over note.getChildBranches(): the list is read once, before the
\* loop; a throw inside a recursive call ends the loop and propagates
deleteChildBranches(S, childBranches, deleteId, hoistedNoteId) ==
    IF childBranches = <<>> THEN Outcome(S, FALSE, FALSE)
    ELSE LET r == deleteBranch(S, Head(childBranches), deleteId, hoistedNoteId)
         IN IF r.threw THEN r
            ELSE deleteChildBranches(r.S, Tail(childBranches), deleteId, hoistedNoteId)

\* deleteBranch(branch, deleteId, taskContext) with cls.getHoistedNoteId()
\* = hoistedNoteId.  Nothing here opens a transaction: what was saved before
\* a throw stays saved.
deleteBranch(S, branchId, deleteId, hoistedNoteId) ==
    IF isAbsentOrDeleted(S, branchId) THEN Outcome(S, FALSE, FALSE)
    ELSE IF isRootOrHoisted(S, branchId, hoistedNoteId) THEN Outcome(S, FALSE, TRUE)
    ELSE LET S1 == markBranchDeleted(S, branchId, deleteId)
             noteId == S.branches[branchId].noteId
         IN IF noBranchLeft(S1, noteId)
            THEN LET r == deleteChildBranches(S1, getChildBranches(S1, noteId),
                                              deleteId, hoistedNoteId)
                 IN IF r.threw THEN r
                    ELSE LET S2 == markNoteDeleted(r.S, noteId, deleteId)
                             S3 == markAttributesDeleted(
                                       S2, getOwnedAttributes(S2, noteId), deleteId)
                             S4 == markAttributesDeleted(
                                       S3, getTargetRelations(S3, noteId), deleteId)
                         IN Outcome(S4, TRUE, FALSE)
            ELSE Outcome(S1, FALSE, FALSE)

---------------------------------------------------------------------------
(* undeleteNote *)

\* mutant: the parent note is not looked at
getUndeletedParentBranches_anyParent(S, noteId, deleteId) ==
    {b \in DOMAIN S.branches :
        /\ S.branches[b].noteId = noteId
        /\ S.branches[b].isDeleted
        /\ S.branches[b].deleteId = deleteId}

\* getUndeletedParentBranches(noteId, deleteId): branches of the note deleted
\* under deleteId whose parent note exists and is not deleted
getUndeletedParentBranches(S, noteId, deleteId) ==
    {b \in DOMAIN S.branches :
        /\ S.branches[b].noteId = noteId
        /\ S.branches[b].isDeleted
        /\ S.branches[b].deleteId = deleteId
        /\ S.branches[b].parentNoteId \in DOMAIN S.notes
        /\ ~S.notes[S.branches[b].parentNoteId].isDeleted}

\* mutant: the deleteId of the attributes is not compared
deletedAttributesOf_anyDeleteId(S, noteId, deleteId) ==
    {a \in DOMAIN S.attributes :
        /\ S.attributes[a].isDeleted
        /\ \/ S.attributes[a].noteId = noteId
           \/ S.attributes[a].type = "relation" /\ S.attributes[a].value = noteId}

\* the attributes undeleteBranch restores with a note
deletedAttributesOf(S, noteId, deleteId) ==
    {a \in DOMAIN S.attributes :
        /\ S.attributes[a].isDeleted
        /\ S.attributes[a].deleteId = deleteId
        /\ \/ S.attributes[a].noteId = noteId
           \/ S.attributes[a].type = "relation" /\ S.attributes[a].value = noteId}

\* mutant: undeleteBranch does not recurse into child branches
deletedChildBranches_none(S, noteId, deleteId) == {}

\* the child branches undeleteBranch recurses into
deletedChildBranches(S, noteId, deleteId) ==
    {b \in DOMAIN S.branches :
        /\ S.branches[b].isDeleted
        /\ S.branches[b].deleteId = deleteId
        /\ S.branches[b].parentNoteId = noteId}

undeleteAttributes(S, as) ==
    [S EXCEPT !.attributes =
        [a \in DOMAIN S.attributes |->
            IF a \in as
            THEN [S.attributes[a] EXCEPT !.isDeleted = FALSE]
            ELSE S.attributes[a]]]

\* mutant: a note deleted under another deleteId does not stop the undelete
deletedUnderOtherId_never(note, deleteId) == FALSE

\* `note.isDeleted && note.deleteId !== deleteId`
deletedUnderOtherId(note, deleteId) == note.isDeleted /\ note.deleteId # deleteId

RECURSIVE undeleteBranch(_, _, _, _)
RECURSIVE undeleteBranches(_, _, _, _)

\* a loop of undeleteBranch calls over rows read before the loop: row.isDeleted
\* is the flag as it was read (Read), the note is loaded afresh
undeleteBranches(S, Read, branchList, deleteId) ==
    IF branchList = <<>> THEN S
    ELSE undeleteBranches(undeleteBranch(S, Read, Head(branchList), deleteId),
                          Read, Tail(branchList), deleteId)

\* undeleteBranch(branch, deleteId, taskContext); the branch entity was read
\* in store Read
undeleteBranch(S, Read, branchId, deleteId) ==
    LET noteId == S.branches[branchId].noteId
        note == S.notes[noteId]
    IN IF ~Read.branches[branchId].isDeleted THEN S
       ELSE IF deletedUnderOtherId(note, deleteId) THEN S
       ELSE LET S1 == [S EXCEPT !.branches[branchId].isDeleted = FALSE]
            IN IF note.isDeleted /\ note.deleteId = deleteId
               THEN LET S2 == [S1 EXCEPT !.notes[noteId].isDeleted = FALSE]
                        S3 == undeleteAttributes(
                                  S2, deletedAttributesOf(S2, noteId, deleteId))
                    IN undeleteBranches(
                           S3, S3, rowsOf(deletedChildBranches(S3, noteId, deleteId)),
                           deleteId)
               ELSE S1

\* undeleteNote(note, deleteId, taskContext)
undeleteNote(S, noteId, deleteId) ==
    LET undeletedParentBranches == getUndeletedParentBranches(S, noteId, deleteId)
    IN IF undeletedParentBranches = {} THEN S
       ELSE undeleteBranches(S, S, rowsOf(undeletedParentBranches), deleteId)

---------------------------------------------------------------------------
(* createNewNote *)

\* a type or mime that was not passed (undefined)
Undefined == "undefined"

\* params.notePosition holds at most one position: the empty set is undefined
NoPosition == {}

\* String.trim() on a title, a sequence of characters: leading and trailing
\* spaces are removed
RECURSIVE trimStart(_)
trimStart(t) == IF t # <<>> /\ Head(t) = " " THEN trimStart(Tail(t)) ELSE t

RECURSIVE trimEnd(_)
trimEnd(t) ==
    IF t # <<>> /\ t[Len(t)] = " " THEN trimEnd(SubSeq(t, 1, Len(t) - 1)) ELSE t

trim(t) == trimEnd(trimStart(t))

\* `!params.title || params.title.trim().length === 0`
titleIsEmpty(title) == title = <<>> \/ Len(trim(title)) = 0

\* deriveMime(type, mime): throws without a type, keeps a mime that was passed
deriveMime(type, mime) ==
    IF type = Undefined THEN [threw |-> TRUE, mime |-> Undefined]
    ELSE IF mime # Undefined THEN [threw |-> FALSE, mime |-> mime]
    ELSE [threw |-> FALSE,
          mime |-> CASE type = "text" -> "text/html"
                     [] type = "code" -> "text/plain"
                     [] type \in {"relation-map", "search", "canvas-note"} -> "application/json"
                     [] type \in {"render", "book"} -> ""
                     [] OTHER -> "application/octet-stream"]

RECURSIVE maxOf(_)
maxOf(s) == LET x == CHOOSE y \in s : TRUE
            IN IF s = {x} THEN x
               ELSE LET m == maxOf(s \ {x}) IN IF x > m THEN x ELSE m

\* mutant: the deleted branches under the parent count too
getNewNotePosition_countsDeleted(S, parentNoteId) ==
    LET positions == {S.branches[b].notePosition :
                         b \in {x \in DOMAIN S.branches :
                                   S.branches[x].parentNoteId = parentNoteId}}
    IN IF positions = {} THEN 0 ELSE maxOf(positions) + POSITION_GAP

\* getNewNotePosition(parentNoteId): MAX(notePosition) over the non-deleted
\* branches under the parent, plus the gap; 0 when there is none
getNewNotePosition(S, parentNoteId) ==
    LET positions == {S.branches[b].notePosition : b \in childBranchSet(S, parentNoteId)}
    IN IF positions = {} THEN 0 ELSE maxOf(positions) + POSITION_GAP

\* the ids utils.newEntityId() hands out: fresh, here numbered by the rows
\* the table holds
newNoteId(S) == "c" \o ToString(Cardinality(DOMAIN S.notes))
newBranchId(S) == "b" \o ToString(Cardinality(DOMAIN S.branches))
newAttributeId(S) == "a" \o ToString(Cardinality(DOMAIN S.attributes))

\* a table with one more row
withRow(table, id, row) ==
    [x \in DOMAIN table \cup {id} |-> IF x = id THEN row ELSE table[x]]

\* Note.getAttributes(): the non-deleted attributes the note owns, the
\* inheritable ones of its ancestors through non-deleted branches, and those
\* of the notes its template relations name; path holds the notes being
\* resolved
RECURSIVE getAttributes(_, _, _)
getAttributes(S, noteId, path) ==
    IF noteId \in path \/ noteId \notin DOMAIN S.notes THEN {}
    ELSE LET newPath == path \cup {noteId}
             owned == getOwnedAttributes(S, noteId)
             parents == {S.branches[b].parentNoteId : b \in getBranches(S, noteId)}
             inherited == UNION {
                 {a \in getAttributes(S, p, newPath) : S.attributes[a].isInheritable} :
                     p \in {q \in parents : q \in DOMAIN S.notes /\ S.notes[q].type # "search"}}
             templates == {S.attributes[a].value : a \in
                              {x \in owned \cup inherited :
                                  /\ S.attributes[x].type = "relation"
                                  /\ S.attributes[x].name = <<"template">>}}
         IN owned \cup inherited \cup
                UNION {getAttributes(S, t, newPath) : t \in templates \ {noteId}}

\* mutant: only the inheritable attributes named child:X count
isChildAttribute_inheritableOnly(S, a) ==
    /\ S.attributes[a].name # <<>> /\ Head(S.attributes[a].name) = "child:"
    /\ S.attributes[a].isInheritable

\* attr.name.startsWith("child:"): a name is a sequence of segments and
\* "child:" is one segment
isChildAttribute(S, a) ==
    S.attributes[a].name # <<>> /\ Head(S.attributes[a].name) = "child:"

\* copyChildAttributes(parentNote, childNote): every attribute of the parent,
\* owned or inherited, named child:X is saved on the child as X
RECURSIVE copyAttributes(_, _, _)
copyAttributes(S, as, childNoteId) ==
    IF as = <<>> THEN S
    ELSE LET attr == S.attributes[Head(as)]
             copy == [noteId |-> childNoteId, type |-> attr.type,
                      name |-> Tail(attr.name), value |-> attr.value,
                      isInheritable |-> attr.isInheritable,
                      isDeleted |-> FALSE, deleteId |-> NoDeleteId]
         IN copyAttributes(
                [S EXCEPT !.attributes = withRow(S.attributes, newAttributeId(S), copy)],
                Tail(as), childNoteId)

copyChildAttributes(S, parentNoteId, childNoteId) ==
    copyAttributes(
        S, rowsOf({a \in getAttributes(S, parentNoteId, {}) : isChildAttribute(S, a)}),
        childNoteId)

\* the names of the link relations saveLinks keeps for a note of a type
LinkNames(type) ==
    CASE type = "text" -> {"imageLink", "internalLink", "includeNoteLink"}
      [] type = "relation-map" -> {"relationMapLink"}
      [] OTHER -> {}

\* Note.getLinks(): the link relations of the note, deleted or not
getLinks(S, noteId) ==
    {a \in DOMAIN S.attributes :
        /\ S.attributes[a].noteId = noteId
        /\ S.attributes[a].type = "relation"
        /\ S.attributes[a].name \in
             {<<"imageLink">>, <<"internalLink">>, <<"includeNoteLink">>,
              <<"relationMapLink">>}}

\* the first loop of saveLinks: a found link whose target is missing or
\* deleted is skipped, a new one is saved, a deleted one is undeleted
RECURSIVE saveFoundLinks(_, _, _)
saveFoundLinks(S, noteId, foundLinks) ==
    IF foundLinks = <<>> THEN S
    ELSE LET link == Head(foundLinks)
             existing == {a \in getLinks(S, noteId) :
                             /\ S.attributes[a].value = link.value
                             /\ S.attributes[a].name = <<link.name>>}
             S1 == IF link.value \notin DOMAIN S.notes \/ S.notes[link.value].isDeleted
                   THEN S
                   ELSE IF existing = {}
                   THEN [S EXCEPT !.attributes = withRow(
                            S.attributes, newAttributeId(S),
                            [noteId |-> noteId, type |-> "relation",
                             name |-> <<link.name>>, value |-> link.value,
                             isInheritable |-> FALSE,
                             isDeleted |-> FALSE, deleteId |-> NoDeleteId])]
                   ELSE LET a == CHOOSE x \in existing : TRUE
                        IN [S EXCEPT !.attributes[a].isDeleted = FALSE]
         IN saveFoundLinks(S1, noteId, Tail(foundLinks))

\* saveLinks(note, content): content is held as the set of links the regular
\* expressions find in it
saveLinks(S, noteId, content, sessionAvailable) ==
    LET note == S.notes[noteId]
    IN IF note.type \notin {"text", "relation-map"} THEN S
       ELSE IF note.isProtected /\ ~sessionAvailable THEN S
       ELSE LET found == {l \in content : l.name \in LinkNames(note.type)}
                S1 == saveFoundLinks(S, noteId, rowsOf(found))
                unused == {a \in getLinks(S, noteId) :
                              ~\E l \in found : /\ S.attributes[a].value = l.value
                                                /\ S.attributes[a].name = <<l.name>>}
            IN [S1 EXCEPT !.attributes =
                   [a \in DOMAIN S1.attributes |->
                       IF a \in unused
                       THEN [S1.attributes[a] EXCEPT !.isDeleted = TRUE]
                       ELSE S1.attributes[a]]]

\* scanForLinks(note): errors are caught and logged
scanForLinks(S, noteId, sessionAvailable) ==
    IF noteId \notin DOMAIN S.notes THEN S
    ELSE IF S.notes[noteId].type \notin {"text", "relation-map"} THEN S
    ELSE IF S.notes[noteId].isProtected /\ ~sessionAvailable THEN S
    ELSE saveLinks(S, noteId, S.contents[noteId], sessionAvailable)

\* sql.transactional(f): what f wrote is rolled back when f throws
transactional(S, r) == IF r.threw THEN Outcome(S, r.ret, TRUE) ELSE r

NoResult == [noteId |-> Undefined, branchId |-> Undefined]

\* the function createNewNote passes to sql.transactional; on a throw the
\* outcome holds what was written so far
createNewNoteInTransaction(S, params, sessionAvailable) ==
    LET derived == deriveMime(params.type, params.mime)
        noteId == newNoteId(S)
        branchId == newBranchId(S)
        S1 == [S EXCEPT !.notes = withRow(S.notes, noteId,
                  [type |-> params.type, mime |-> derived.mime, title |-> params.title,
                   isProtected |-> params.isProtected,
                   isDeleted |-> FALSE, deleteId |-> NoDeleteId])]
        S2 == [S1 EXCEPT !.contents = withRow(S1.contents, noteId, params.content)]
        S3 == [S2 EXCEPT !.branches = withRow(S2.branches, branchId,
                  [noteId |-> noteId, parentNoteId |-> params.parentNoteId,
                   notePosition |-> IF params.notePosition # NoPosition
                                    THEN CHOOSE x \in params.notePosition : TRUE
                                    ELSE getNewNotePosition(S2, params.parentNoteId),
                   isDeleted |-> FALSE, deleteId |-> NoDeleteId])]
        S4 == scanForLinks(S3, noteId, sessionAvailable)
        S5 == copyChildAttributes(S4, params.parentNoteId, noteId)
    IN IF derived.threw THEN Outcome(S, NoResult, TRUE)
       \* Note.setContent throws for a protected note outside a protected session
       ELSE IF params.isProtected /\ ~sessionAvailable THEN Outcome(S1, NoResult, TRUE)
       ELSE Outcome(S5, [noteId |-> noteId, branchId |-> branchId], FALSE)

\* mutant: the writes are not wrapped in a transaction
createNewNote_noTransaction(S, params, sessionAvailable) ==
    IF ~noteExists(S, params.parentNoteId) THEN Outcome(S, NoResult, TRUE)
    ELSE IF titleIsEmpty(params.title) THEN Outcome(S, NoResult, TRUE)
    ELSE createNewNoteInTransaction(S, params, sessionAvailable)

\* createNewNote(params)
createNewNote(S, params, sessionAvailable) ==
    IF ~noteExists(S, params.parentNoteId) THEN Outcome(S, NoResult, TRUE)
    ELSE IF titleIsEmpty(params.title) THEN Outcome(S, NoResult, TRUE)
    ELSE transactional(S, createNewNoteInTransaction(S, params, sessionAvailable))

\* mutant: the branches at the anchor's position move too
shiftPositionsAfter_fromAnchor(S, parentNoteId, position) ==
    [S EXCEPT !.branches =
        [b \in DOMAIN S.branches |->
            IF /\ S.branches[b].parentNoteId = parentNoteId
               /\ S.branches[b].notePosition >= position
               /\ ~S.branches[b].isDeleted
            THEN [S.branches[b] EXCEPT !.notePosition = @ + POSITION_GAP]
            ELSE S.branches[b]]]

\* the UPDATE of createNewNoteWithTarget: every non-deleted branch under the
\* parent with a position after the anchor's moves by the gap
shiftPositionsAfter(S, parentNoteId, position) ==
    [S EXCEPT !.branches =
        [b \in DOMAIN S.branches |->
            IF /\ S.branches[b].parentNoteId = parentNoteId
               /\ S.branches[b].notePosition > position
               /\ ~S.branches[b].isDeleted
            THEN [S.branches[b] EXCEPT !.notePosition = @ + POSITION_GAP]
            ELSE S.branches[b]]]

\* the type and mime createNewNoteWithTarget fills in when no type is passed
withDefaultType(S, params) ==
    IF S.notes[params.parentNoteId].type = "code"
    THEN [params EXCEPT !.type = "code", !.mime = S.notes[params.parentNoteId].mime]
    ELSE [params EXCEPT !.type = "text", !.mime = "text/html"]

\* createNewNoteWithTarget(target, targetBranchId, params): the UPDATE runs
\* before createNewNote and outside its transaction
createNewNoteWithTarget(S, target, targetBranchId, params, sessionAvailable) ==
    IF params.type = Undefined /\ ~noteExists(S, params.parentNoteId)
    THEN Outcome(S, NoResult, TRUE)
    ELSE LET p == IF params.type = Undefined THEN withDefaultType(S, params) ELSE params
         IN IF target = "into" THEN createNewNote(S, p, sessionAvailable)
            ELSE IF target = "after"
            THEN IF targetBranchId \notin DOMAIN S.branches
                 THEN Outcome(S, NoResult, TRUE)
                 ELSE LET afterNote == S.branches[targetBranchId]
                          S1 == shiftPositionsAfter(S, p.parentNoteId, afterNote.notePosition)
                      IN createNewNote(
                             S1, [p EXCEPT !.notePosition = {afterNote.notePosition + POSITION_GAP}],
                             sessionAvailable)
            ELSE Outcome(S, NoResult, TRUE)

---------------------------------------------------------------------------
(* duplicateSubtree *)

\* Note.getDescendantNoteIds(): the note and the non-deleted notes below it
\* through non-deleted branches
RECURSIVE descendantsFrom(_, _)
descendantsFrom(S, found) ==
    LET more == {S.branches[b].noteId : b \in
                    {x \in DOMAIN S.branches :
                        /\ S.branches[x].parentNoteId \in found
                        /\ ~S.branches[x].isDeleted
                        /\ S.branches[x].noteId \in DOMAIN S.notes
                        /\ ~S.notes[S.branches[x].noteId].isDeleted}}
    IN IF more \subseteq found THEN found ELSE descendantsFrom(S, found \cup more)

getDescendantNoteIds(S, noteId) == descendantsFrom(S, {noteId})

\* the note ids a store mentions, in its notes or in a reference to a note
mentionedNoteIds(S) ==
    DOMAIN S.notes
        \cup {S.branches[b].noteId : b \in DOMAIN S.branches}
        \cup {S.branches[b].parentNoteId : b \in DOMAIN S.branches}
        \cup {S.attributes[a].value : a \in DOMAIN S.attributes}
        \cup UNION {{l.value : l \in S.contents[n]} : n \in DOMAIN S.contents}

\* count ids of utils.newEntityId(): the first ids of the enumeration c0, c1,
\* ... that the store does not mention
newEntityIds(S, count) ==
    LET used == mentionedNoteIds(S)
        free == {k \in 0..(Cardinality(used) + count) : ("c" \o ToString(k)) \notin used}
        RECURSIVE firstOf(_, _)
        firstOf(ks, n) == IF n = 0 THEN <<>>
                          ELSE LET k == CHOOSE x \in ks : \A y \in ks : x <= y
                               IN <<"c" \o ToString(k)>> \o firstOf(ks \ {k}, n - 1)
    IN firstOf(free, count)

\* getNoteIdMapping(origNote): a new id for the note and each descendant,
\* generated before any copy is made
getNoteIdMapping(S, origNoteId) ==
    LET origNoteIds == getDescendantNoteIds(S, origNoteId)
        ids == rowsOf(origNoteIds)
        new == newEntityIds(S, Len(ids))
    IN [x \in origNoteIds |-> new[CHOOSE i \in DOMAIN ids : ids[i] = x]]

\* the suffix duplicateSubtree gives the title of the copy of the root
DupSuffix == <<"(", "d", "u", "p", ")">>

\* String.endsWith
endsWith(title, suffix) ==
    /\ Len(title) >= Len(suffix)
    /\ SubSeq(title, Len(title) - Len(suffix) + 1, Len(title)) = suffix

\* mutant: the suffix is appended to every title
withDupSuffix_always(title) == title \o <<" ">> \o DupSuffix

\* the title duplicateSubtree saves for the copy of the root: the suffix is
\* appended unless the title ends with it
withDupSuffix(title) ==
    IF ~endsWith(title, DupSuffix) THEN title \o <<" ">> \o DupSuffix ELSE title

\* replaceByMap(content, noteIdMapping) for the content of a text,
\* relation-map or search note: the mapped ids in it are replaced
replaceByMap(content, noteIdMapping) ==
    {[name |-> l.name,
      value |-> IF l.value \in DOMAIN noteIdMapping THEN noteIdMapping[l.value]
                ELSE l.value] : l \in content}

\* mutant: every relation keeps its target
duplicatedValue_unmapped(attr, noteIdMapping) == attr.value

\* the value of the copy of an attribute: a relation into the duplicated
\* subtree points to the new note
duplicatedValue(attr, noteIdMapping) ==
    IF attr.type = "relation" /\ attr.value \in DOMAIN noteIdMapping
    THEN noteIdMapping[attr.value]
    ELSE attr.value

\* the loop over origNote.getOwnedAttributes() of duplicateSubtreeInner
RECURSIVE duplicateAttributes(_, _, _, _)
duplicateAttributes(S, as, copyNoteId, noteIdMapping) ==
    IF as = <<>> THEN S
    ELSE LET attr == S.attributes[Head(as)]
             copy == [attr EXCEPT !.noteId = copyNoteId,
                                  !.value = duplicatedValue(attr, noteIdMapping)]
         IN duplicateAttributes(
                [S EXCEPT !.attributes = withRow(S.attributes, newAttributeId(S), copy)],
                Tail(as), copyNoteId, noteIdMapping)

\* mutant: the copy of a clone is never found
alreadyDuplicated_never(S, copyNoteId) == FALSE

\* repository.getNote(newNoteId) finds the copy made from another placement
alreadyDuplicated(S, copyNoteId) == copyNoteId \in DOMAIN S.notes

\* duplicateSubtreeInner(origNote, origBranch, newParentNoteId, noteIdMapping);
\* origPosition holds the position of origBranch, or nothing without one.
\* A note outside the mapping has no new id, and the save of a branch without
\* noteId throws. On a throw the outcome holds what was written so far.
RECURSIVE duplicateSubtreeInner(_, _, _, _, _, _)
RECURSIVE duplicateChildren(_, _, _, _, _, _)

duplicateChildren(S, Read, childBranches, newParentNoteId, noteIdMapping, sessionAvailable) ==
    IF childBranches = <<>> THEN Outcome(S, NoResult, FALSE)
    ELSE LET childBranch == Read.branches[Head(childBranches)]
             r == duplicateSubtreeInner(S, childBranch.noteId, {childBranch.notePosition},
                                        newParentNoteId, noteIdMapping, sessionAvailable)
         IN IF r.threw THEN r
            ELSE duplicateChildren(r.S, Read, Tail(childBranches), newParentNoteId,
                                   noteIdMapping, sessionAvailable)

duplicateSubtreeInner(S, origNoteId, origPosition, newParentNoteId, noteIdMapping, sessionAvailable) ==
    IF S.notes[origNoteId].isProtected /\ ~sessionAvailable THEN Outcome(S, NoResult, TRUE)
    ELSE IF origNoteId \notin DOMAIN noteIdMapping THEN Outcome(S, NoResult, TRUE)
    ELSE LET origNote == S.notes[origNoteId]
             copyNoteId == noteIdMapping[origNoteId]
             branchId == newBranchId(S)
             S1 == [S EXCEPT !.branches = withRow(S.branches, branchId,
                       [noteId |-> copyNoteId, parentNoteId |-> newParentNoteId,
                        notePosition |-> IF origPosition # NoPosition
                                         THEN (CHOOSE x \in origPosition : TRUE) + 1
                                         ELSE getNewNotePosition(S, newParentNoteId),
                        isDeleted |-> FALSE, deleteId |-> NoDeleteId])]
             ret == [noteId |-> copyNoteId, branchId |-> branchId]
         IN IF alreadyDuplicated(S1, copyNoteId) THEN Outcome(S1, ret, FALSE)
            ELSE LET S2 == [S1 EXCEPT !.notes = withRow(S1.notes, copyNoteId, origNote)]
                     content == IF origNote.type \in {"text", "relation-map", "search"}
                                THEN replaceByMap(S2.contents[origNoteId], noteIdMapping)
                                ELSE S2.contents[origNoteId]
                     S3 == [S2 EXCEPT !.contents = withRow(S2.contents, copyNoteId, content)]
                     S4 == duplicateAttributes(S3, rowsOf(getOwnedAttributes(S3, origNoteId)),
                                               copyNoteId, noteIdMapping)
                     r == duplicateChildren(S4, S4, getChildBranches(S4, origNoteId),
                                            copyNoteId, noteIdMapping, sessionAvailable)
                 IN IF r.threw THEN r ELSE Outcome(r.S, ret, FALSE)

\* duplicateSubtree(origNoteId, newParentNoteId)
duplicateSubtree(S, origNoteId, newParentNoteId, sessionAvailable) ==
    IF origNoteId = ROOT THEN Outcome(S, NoResult, TRUE)
    ELSE IF ~noteExists(S, origNoteId) THEN Outcome(S, NoResult, TRUE)
    ELSE LET underParent == {b \in getBranches(S, origNoteId) :
                                S.branches[b].parentNoteId = newParentNoteId}
             origPosition == IF underParent = {} THEN NoPosition
                             ELSE {S.branches[Head(orderByPosition(S, underParent))].notePosition}
             res == duplicateSubtreeInner(S, origNoteId, origPosition, newParentNoteId,
                                          getNoteIdMapping(S, origNoteId), sessionAvailable)
         IN IF res.threw THEN res
            ELSE Outcome([res.S EXCEPT !.notes[res.ret.noteId].title = withDupSuffix(@)],
                         res.ret, FALSE)

---------------------------------------------------------------------------
(* Initial stores: every tree, with clones, over the initial notes *)

NoteRow(type, title) ==
    [type |-> type, mime |-> deriveMime(type, Undefined).mime, title |-> title,
     isProtected |-> FALSE, isDeleted |-> FALSE, deleteId |-> NoDeleteId]

BranchRow(noteId, parentNoteId, notePosition) ==
    [noteId |-> noteId, parentNoteId |-> parentNoteId, notePosition |-> notePosition,
     isDeleted |-> FALSE, deleteId |-> NoDeleteId]

AttributeRow(noteId, type, name, value, isInheritable) ==
    [noteId |-> noteId, type |-> type, name |-> name, value |-> value,
     isInheritable |-> isInheritable, isDeleted |-> FALSE, deleteId |-> NoDeleteId]

NoteIndex(noteId) == CHOOSE i \in DOMAIN InitialNoteSeq : InitialNoteSeq[i] = noteId

\* the parents a note of the initial tree may have: root and the notes before it
EarlierNotes(noteId) ==
    {ROOT} \cup {InitialNoteSeq[j] : j \in 1..(NoteIndex(noteId) - 1)}

\* every assignment of a non-empty set of parents to each note: the trees, and
\* the trees with clones (a note with two or more parents)
ParentChoices ==
    {p \in [InitialNoteIds -> SUBSET ({ROOT} \cup InitialNoteIds)] :
        \A n \in InitialNoteIds : p[n] # {} /\ p[n] \subseteq EarlierNotes(n)}

\* siblings are spaced by POSITION_GAP in the order of their index
InitialPosition(p, parentNoteId, noteId) ==
    POSITION_GAP * Cardinality({j \in 1..(NoteIndex(noteId) - 1) :
                                    parentNoteId \in p[InitialNoteSeq[j]]})

InitialPairs(p) ==
    {pr \in ({ROOT} \cup InitialNoteIds) \X InitialNoteIds : pr[1] \in p[pr[2]]}

InitialBranches(p) ==
    [b \in {ROOT} \cup {BranchName(pr[1], pr[2]) : pr \in InitialPairs(p)} |->
        IF b = ROOT THEN BranchRow(ROOT, NONE, 0)
        ELSE LET pr == CHOOSE q \in InitialPairs(p) : BranchName(q[1], q[2]) = b
             IN BranchRow(pr[2], pr[1], InitialPosition(p, pr[1], pr[2]))]

\* the second note is a code note, the others are text notes
InitialType(noteId) ==
    IF noteId # ROOT /\ NoteIndex(noteId) = 2 THEN "code" ELSE "text"

InitialNotes ==
    [n \in {ROOT} \cup InitialNoteIds |-> NoteRow(InitialType(n), <<"t">>)]

InitialContents == [n \in {ROOT} \cup InitialNoteIds |-> {}]

\* every note owns a relation to the next note (the last one to the first),
\* and the first note owns a label, a child: label that is inheritable and a
\* child: label that is not
NextNote(noteId) == InitialNoteSeq[(NoteIndex(noteId) % Len(InitialNoteSeq)) + 1]

InitialAttributes ==
    [a \in {"label_n1", "child_n1", "childinh_n1"} \cup {"rel_" \o n : n \in InitialNoteIds} |->
        IF a = "label_n1"
        THEN AttributeRow(InitialNoteSeq[1], "label", <<"color">>, "red", FALSE)
        ELSE IF a = "child_n1"
        THEN AttributeRow(InitialNoteSeq[1], "label", <<"child:", "color">>, "blue", FALSE)
        ELSE IF a = "childinh_n1"
        THEN AttributeRow(InitialNoteSeq[1], "label", <<"child:", "tag">>, "x", TRUE)
        ELSE LET n == CHOOSE m \in InitialNoteIds : "rel_" \o m = a
             IN AttributeRow(n, "relation", <<"link">>, NextNote(n), FALSE)]

InitialStore(p) ==
    [notes |-> InitialNotes, contents |-> InitialContents,
     branches |-> InitialBranches(p), attributes |-> InitialAttributes]

StoreIs(S) ==
    /\ notes = S.notes
    /\ contents = S.contents
    /\ branches = S.branches
    /\ attributes = S.attributes

\* the change journal of a store whose rows were all written by save: one
\* record for every row
changesOf(S) ==
    {<<"notes", n>> : n \in DOMAIN S.notes}
        \cup {<<"note_contents", n>> : n \in DOMAIN S.contents}
        \cup {<<"branches", b>> : b \in DOMAIN S.branches}
        \cup {<<"attributes", a>> : a \in DOMAIN S.attributes}

\* new ConsistencyChecks(autoFix), before any run
ConsistencyChecks(autoFix) ==
    [autoFix |-> autoFix, unrecoveredConsistencyErrors |-> FALSE,
     fixedIssues |-> FALSE, pc |-> "idle", executed |-> <<>>,
     runs |-> 0, failures |-> 0, failed |-> FALSE, found |-> FALSE]

\* the exclusive section is free, no runChecks call is waiting for it or has
\* left it, no message has been sent, the frontend has loaded nothing, no time has
\* passed
\* no revision has been made and no image has been downloaded
NothingEdited ==
    /\ note_revisions = {}
    /\ downloadImagePromises = <<>>
    /\ imageUrlToNoteIdMapping = <<>>
    /\ getImage = <<>>
    /\ timers = {}

NoRunChecks ==
    /\ NothingEdited
    /\ sync_mutex = [held |-> FALSE, waiting |-> <<>>, settled |-> <<>>]
    /\ ws = <<>>
    /\ treeCache = [notes |-> <<>>, attributes |-> <<>>]
    /\ noteAttributeCache = [attributes |-> <<>>]
    /\ now = 0

\* the journal is complete and no check is running
NoCheckRuns ==
    /\ entity_changes = changesOf(Store)
    /\ checker = ConsistencyChecks(FALSE)
    /\ NoRunChecks

Init ==
    /\ \E p \in ParentChoices : StoreIs(InitialStore(p))
    /\ calls = 0
    /\ NoCheckRuns

---------------------------------------------------------------------------
(* Actions *)

Apply(S) ==
    /\ notes' = S.notes
    /\ contents' = S.contents
    /\ branches' = S.branches
    /\ attributes' = S.attributes
    /\ calls' = IF S = Store THEN calls ELSE calls + 1
    /\ entity_changes' = changesOf(S)
    /\ checker' = checker
    /\ UNCHANGED <<sync_mutex, ws, frontend, editing, now>>

\* the deleteIds that appear in the store
UsedDeleteIds(S) ==
    ({S.notes[n].deleteId : n \in DOMAIN S.notes}
        \cup {S.branches[b].deleteId : b \in DOMAIN S.branches}
        \cup {S.attributes[a].deleteId : a \in DOMAIN S.attributes}) \ {NoDeleteId}

\* deleteIds are opaque random tokens: a call passes one already in the store
\* or a new one, and the new one is the next of the enumeration
CallDeleteIds(S) ==
    {DeleteIdName(i) : i \in 1..NumDeleteIds} \cap
        (UsedDeleteIds(S) \cup
            {DeleteIdName(Cardinality(UsedDeleteIds(S)) + 1)})

\* the branch ids a caller may pass: those of the table and one of no branch
BranchArgs(S) == DOMAIN S.branches \cup {"absent"}

\* a request deletes a branch under a deleteId, with any note hoisted; what
\* deleteBranch wrote before a throw stays written
DeleteBranch ==
    /\ calls < MaxCalls
    /\ \E b \in BranchArgs(Store), D \in CallDeleteIds(Store), h \in DOMAIN notes :
        Apply(deleteBranch(Store, b, D, h).S)

\* a request undeletes a note under a deleteId
UndeleteNote ==
    /\ calls < MaxCalls
    /\ \E n \in DOMAIN notes, D \in CallDeleteIds(Store) :
        Apply(undeleteNote(Store, n, D))

Next == DeleteBranch \/ UndeleteNote

Spec == Init /\ [][Next]_vars

\* a request deletes a branch under a deleteId of its own, one that no
\* earlier request passed
DeleteBranchDistinct ==
    /\ calls < MaxCalls
    /\ \E b \in BranchArgs(Store), h \in DOMAIN notes,
          D \in CallDeleteIds(Store) \ UsedDeleteIds(Store) :
        Apply(deleteBranch(Store, b, D, h).S)

NextDistinct == DeleteBranchDistinct \/ UndeleteNote

SpecDistinct == Init /\ [][NextDistinct]_vars

\* the parameters a caller passes to createNewNote: a text note titled " t"
\* whose content links to the first note, and the same with one parameter
\* changed
BaseParams(parentNoteId) ==
    [parentNoteId |-> parentNoteId, title |-> <<" ", "t">>,
     content |-> {[name |-> "internalLink", value |-> InitialNoteSeq[1]]},
     type |-> "text", mime |-> Undefined, isProtected |-> FALSE,
     notePosition |-> NoPosition]

BlankTitles == {<<>>, <<" ">>, <<" ", " ">>}

ParentArgs(S) == DOMAIN S.notes \cup {"absent"}

CreateParams(S) ==
    UNION {LET base == BaseParams(p)
           IN {base, [base EXCEPT !.type = Undefined],
               [base EXCEPT !.isProtected = TRUE],
               [base EXCEPT !.notePosition = {POSITION_GAP}]}
              \cup {[base EXCEPT !.title = t] : t \in BlankTitles} :
           p \in ParentArgs(S)}

CreateAtParams(S) ==
    UNION {LET base == BaseParams(p)
           IN {base, [base EXCEPT !.title = <<" ">>], [base EXCEPT !.type = Undefined]} :
           p \in ParentArgs(S)}

Targets == {"into", "after", "before"}

\* the notes created since the initial store
Created(S) == DOMAIN S.notes \ ({ROOT} \cup InitialNoteIds)

\* a request creates a note, inside or outside a protected session
CreateNote ==
    /\ calls < MaxCreateCalls
    /\ \E params \in CreateParams(Store), sessionAvailable \in BOOLEAN :
        Apply(createNewNote(Store, params, sessionAvailable).S)

\* a request creates a note at a target; what the UPDATE wrote before a
\* throw of createNewNote stays written
CreateNoteAt ==
    /\ calls < MaxCreateCalls
    /\ \E target \in Targets, targetBranchId \in BranchArgs(Store),
          params \in CreateAtParams(Store) :
        Apply(createNewNoteWithTarget(Store, target, targetBranchId, params, TRUE).S)

NextCreate == CreateNote \/ CreateNoteAt

\* the trees notes are created in: the first two notes under root and the
\* third under root or under the first
CreateShapes ==
    {p \in ParentChoices :
        /\ p[InitialNoteSeq[1]] = {ROOT}
        /\ p[InitialNoteSeq[2]] = {ROOT}
        /\ Cardinality(p[InitialNoteSeq[3]]) = 1
        /\ p[InitialNoteSeq[3]] \subseteq {ROOT, InitialNoteSeq[1]}}

\* notes are created in a tree in which at most one branch has been deleted
InitCreate ==
    /\ \E p \in CreateShapes : \E b \in BranchArgs(InitialStore(p)) :
        StoreIs(deleteBranch(InitialStore(p), b, DeleteIdName(1), ROOT).S)
    /\ calls = 0
    /\ NoCheckRuns

SpecCreate == InitCreate /\ [][NextCreate]_vars

\* the parents a caller duplicates a note under: root, the parents of the
\* note and the note itself
DuplicateParents(S, origNoteId) ==
    ({ROOT, origNoteId}
        \cup {S.branches[b].parentNoteId :
                 b \in {x \in DOMAIN S.branches : S.branches[x].noteId = origNoteId}})
        \cap DOMAIN S.notes

\* a request duplicates the subtree of a note under a parent; what
\* duplicateSubtree wrote before a throw stays written
DuplicateSubtree ==
    /\ calls < MaxDuplicateCalls
    /\ \E origNoteId \in DOMAIN notes, sessionAvailable \in BOOLEAN :
       \E newParentNoteId \in DuplicateParents(Store, origNoteId) :
        Apply(duplicateSubtree(Store, origNoteId, newParentNoteId, sessionAvailable).S)

NextDuplicate == DuplicateSubtree

\* the trees subtrees are duplicated in: the first note under root, the
\* second under the first and perhaps under root too, the third under the
\* second and perhaps under the first too
DuplicateShapes ==
    {p \in ParentChoices :
        /\ p[InitialNoteSeq[1]] = {ROOT}
        /\ InitialNoteSeq[1] \in p[InitialNoteSeq[2]]
        /\ InitialNoteSeq[2] \in p[InitialNoteSeq[3]]
        /\ ROOT \notin p[InitialNoteSeq[3]]}

\* the content of every note links to the next note, and either a branch of
\* the third note has been deleted or the third note is protected or neither
InitDuplicate ==
    /\ \E p \in DuplicateShapes :
        \E b \in {"absent"} \cup {BranchName(q, InitialNoteSeq[3]) : q \in p[InitialNoteSeq[3]]} :
        \E isProtected \in {FALSE, b = "absent"} :
          LET S == deleteBranch(InitialStore(p), b, DeleteIdName(1), ROOT).S
          IN StoreIs([S EXCEPT
                 !.contents = [n \in DOMAIN S.contents |->
                                  IF n = ROOT THEN {}
                                  ELSE {[name |-> "internalLink", value |-> NextNote(n)]}],
                 !.notes[InitialNoteSeq[3]].isProtected = isProtected])
    /\ calls = 0
    /\ NoCheckRuns

SpecDuplicate == InitDuplicate /\ [][NextDuplicate]_vars

---------------------------------------------------------------------------
(* The consistency checker: the queries of its battery and their fixers *)

\* runs of the checker in one behaviour
MaxRuns == 2
\* violations the initial store of a checked behaviour is seeded with
MaxViolations == 2
\* repairs that fail in one behaviour
MaxFailures == 1

\* the store the checker scans: the tables and the change journal
Database ==
    [notes |-> notes, contents |-> contents, branches |-> branches,
     attributes |-> attributes, entity_changes |-> entity_changes]

\* a content column that IS NULL
NULL_CONTENT == {[name |-> "NULL", value |-> "NULL"]}

\* the note types of the type check
NoteTypes ==
    {"text", "code", "render", "file", "image", "search", "relation-map",
     "canvas-note", "book"}

\* the tables runEntityChangeChecks is run for, in its order
EntityNames ==
    <<"notes", "note_contents", "note_revisions", "branches", "attributes",
      "api_tokens", "options">>

\* the primary keys of a table; the store holds no note revisions, no api
\* tokens and no synced options
tableIds(S, entityName) ==
    CASE entityName = "notes" -> DOMAIN S.notes
      [] entityName = "note_contents" -> DOMAIN S.contents
      [] entityName = "branches" -> DOMAIN S.branches
      [] entityName = "attributes" -> DOMAIN S.attributes
      [] OTHER -> {}

\* a branch row with the columns the checker writes: prefix and isExpanded
CheckedBranchRow(row, prefix, isExpanded) ==
    [noteId |-> row.noteId, parentNoteId |-> row.parentNoteId,
     notePosition |-> row.notePosition, isDeleted |-> row.isDeleted,
     deleteId |-> row.deleteId, prefix |-> prefix, isExpanded |-> isExpanded]

\* entity.save(): the row is written and its change is recorded
saveEntity(S, entityName, id, row) ==
    LET written ==
            CASE entityName = "notes" -> [S EXCEPT !.notes = withRow(@, id, row)]
              [] entityName = "note_contents" -> [S EXCEPT !.contents = withRow(@, id, row)]
              [] entityName = "branches" -> [S EXCEPT !.branches = withRow(@, id, row)]
              [] entityName = "attributes" -> [S EXCEPT !.attributes = withRow(@, id, row)]
    IN [written EXCEPT !.entity_changes = @ \cup {<<entityName, id>>}]

\* branch.isDeleted = true; branch.save()
deleteBranchRow(S, branchId) ==
    saveEntity(S, "branches", branchId, [S.branches[branchId] EXCEPT !.isDeleted = TRUE])

\* branch.parentNoteId = 'root'; branch.save()
moveBranchToRoot(S, branchId) ==
    saveEntity(S, "branches", branchId, [S.branches[branchId] EXCEPT !.parentNoteId = ROOT])

deleteAttribute_keeps(S, attributeId) == S

\* attribute.isDeleted = true; attribute.save()
deleteAttribute(S, attributeId) ==
    saveEntity(S, "attributes", attributeId,
               [S.attributes[attributeId] EXCEPT !.isDeleted = TRUE])

\* note.setContent(''): the content row holds the empty string, with no link
setEmptyContent(S, noteId) == saveEntity(S, "note_contents", noteId, {})

liveBranches(S) == {b \in DOMAIN S.branches : ~S.branches[b].isDeleted}
liveAttributes(S) == {a \in DOMAIN S.attributes : ~S.attributes[a].isDeleted}

\* the non-deleted branches placing a note under a parent
branchesOfPair(S, noteId, parentNoteId) ==
    {b \in liveBranches(S) :
        S.branches[b].noteId = noteId /\ S.branches[b].parentNoteId = parentNoteId}

\* the rows a query of the battery returns; key names the row
query(name, entityName, S) ==
    CASE name = "branchMissingNote" ->
            {[key |-> b, branchId |-> b, noteId |-> S.branches[b].noteId] :
                b \in {x \in liveBranches(S) : S.branches[x].noteId \notin DOMAIN S.notes}}
      [] name = "branchMissingParent" ->
            {[key |-> b, branchId |-> b, parentNoteId |-> S.branches[b].noteId] :
                b \in {x \in liveBranches(S) :
                          x # "root" /\ S.branches[x].parentNoteId \notin DOMAIN S.notes}}
      [] name = "attributeMissingNote" ->
            {[key |-> a, attributeId |-> a, noteId |-> S.attributes[a].noteId] :
                a \in {x \in liveAttributes(S) : S.attributes[x].noteId \notin DOMAIN S.notes}}
      [] name = "relationMissingTarget" ->
            {[key |-> a, attributeId |-> a, noteId |-> S.attributes[a].value] :
                a \in {x \in liveAttributes(S) :
                          /\ S.attributes[x].type = "relation"
                          /\ S.attributes[x].value \notin DOMAIN S.notes}}
      [] name = "branchOfDeletedNote" ->
            {[key |-> b, branchId |-> b, noteId |-> S.branches[b].noteId] :
                b \in {x \in liveBranches(S) :
                          /\ S.branches[x].noteId \in DOMAIN S.notes
                          /\ S.notes[S.branches[x].noteId].isDeleted}}
      [] name = "branchOfDeletedParent" ->
            {[key |-> b, branchId |-> b, parentNoteId |-> S.branches[b].parentNoteId] :
                b \in {x \in liveBranches(S) :
                          /\ S.branches[x].parentNoteId \in DOMAIN S.notes
                          /\ S.notes[S.branches[x].parentNoteId].isDeleted}}
      [] name = "noteWithoutBranch" ->
            {[key |-> n, noteId |-> n] :
                n \in {x \in DOMAIN S.notes :
                          ~S.notes[x].isDeleted /\ getBranches(S, x) = {}}}
      [] name = "duplicateBranches" ->
            {[key |-> BranchName(pr[2], pr[1]), noteId |-> pr[1], parentNoteId |-> pr[2]] :
                pr \in {<<S.branches[b].noteId, S.branches[b].parentNoteId>> :
                           b \in {x \in liveBranches(S) :
                                     Cardinality(branchesOfPair(S, S.branches[x].noteId,
                                                                S.branches[x].parentNoteId)) > 1}}}
      [] name = "invalidNoteType" ->
            {[key |-> n, noteId |-> n, type |-> S.notes[n].type] :
                n \in {x \in DOMAIN S.notes :
                          ~S.notes[x].isDeleted /\ S.notes[x].type \notin NoteTypes}}
      [] name = "missingContent" ->
            {[key |-> n, noteId |-> n] : n \in DOMAIN S.notes \ DOMAIN S.contents}
      [] name = "nullContent" ->
            {[key |-> n, noteId |-> n] :
                n \in {x \in DOMAIN S.notes \cap DOMAIN S.contents :
                          /\ ~S.notes[x].isDeleted
                          /\ ~S.notes[x].isProtected
                          /\ S.contents[x] = NULL_CONTENT}}
      [] name = "missingRevisionContent" -> {}
      [] name = "searchNoteChildren" ->
            {[key |-> b, parentNoteId |-> S.branches[b].parentNoteId] :
                b \in {x \in liveBranches(S) :
                          /\ S.branches[x].parentNoteId \in DOMAIN S.notes
                          /\ ~S.notes[S.branches[x].parentNoteId].isDeleted
                          /\ S.notes[S.branches[x].parentNoteId].type = "search"}}
      [] name = "emptyRelation" ->
            {[key |-> a, attributeId |-> a] :
                a \in {x \in liveAttributes(S) :
                          S.attributes[x].type = "relation" /\ S.attributes[x].value = ""}}
      [] name = "invalidAttributeType" ->
            {[key |-> a, attributeId |-> a, type |-> S.attributes[a].type] :
                a \in {x \in liveAttributes(S) :
                          S.attributes[x].type \notin {"label", "relation"}}}
      [] name = "attributeOfDeletedNote" ->
            {[key |-> a, attributeId |-> a, noteId |-> S.attributes[a].noteId] :
                a \in {x \in liveAttributes(S) :
                          /\ S.attributes[x].noteId \in DOMAIN S.notes
                          /\ S.notes[S.attributes[x].noteId].isDeleted}}
      [] name = "relationToDeletedNote" ->
            {[key |-> a, attributeId |-> a, targetNoteId |-> S.attributes[a].value] :
                a \in {x \in liveAttributes(S) :
                          /\ S.attributes[x].type = "relation"
                          /\ S.attributes[x].value \in DOMAIN S.notes
                          /\ S.notes[S.attributes[x].value].isDeleted}}
      [] name = "missingEntityChange" ->
            {[key |-> id, entityId |-> id] :
                id \in {x \in tableIds(S, entityName) : <<entityName, x>> \notin S.entity_changes}}
      [] name = "extraEntityChange" ->
            {[key |-> c[2], entityId |-> c[2]] :
                c \in {x \in S.entity_changes :
                          x[1] = entityName /\ x[2] \notin tableIds(S, entityName)}}

\* delete all but the first of a sequence of branches
RECURSIVE deleteBranchRows(_, _)
deleteBranchRows(S, branchIds) ==
    IF branchIds = <<>> THEN S
    ELSE deleteBranchRows(deleteBranchRow(S, Head(branchIds)), Tail(branchIds))

RECURSIVE moveBranchesToRoot(_, _)
moveBranchesToRoot(S, branchIds) ==
    IF branchIds = <<>> THEN S
    ELSE moveBranchesToRoot(moveBranchToRoot(S, Head(branchIds)), Tail(branchIds))

\* new Branch({parentNoteId: 'root', noteId, prefix: 'recovered'}).save()
recoveredBranch(S, noteId) ==
    CheckedBranchRow(BranchRow(noteId, ROOT, getNewNotePosition(S, ROOT)), "recovered", FALSE)

\* what the fixer of a query does to the store for one row in autofix mode
fixerCb(name, entityName, S, res) ==
    CASE name = "branchMissingNote" -> deleteBranchRow(S, res.branchId)
      [] name = "branchMissingParent" -> moveBranchToRoot(S, res.branchId)
      [] name = "attributeMissingNote" -> deleteAttribute(S, res.attributeId)
      [] name = "relationMissingTarget" -> deleteAttribute(S, res.attributeId)
      [] name = "branchOfDeletedNote" -> deleteBranchRow(S, res.branchId)
      [] name = "branchOfDeletedParent" -> deleteBranchRow(S, res.branchId)
      [] name = "noteWithoutBranch" ->
            saveEntity(S, "branches", newBranchId(S), recoveredBranch(S, res.noteId))
      [] name = "duplicateBranches" ->
            deleteBranchRows(S, Tail(rowsOf(branchesOfPair(S, res.noteId, res.parentNoteId))))
      [] name = "invalidNoteType" ->
            saveEntity(S, "notes", res.noteId, [S.notes[res.noteId] EXCEPT !.type = "file"])
      [] name = "missingContent" ->
            IF S.notes[res.noteId].isProtected
            THEN [S EXCEPT !.contents = withRow(@, res.noteId, NULL_CONTENT),
                           !.entity_changes = @ \cup {<<"note_contents", res.noteId>>}]
            ELSE setEmptyContent(S, res.noteId)
      [] name = "nullContent" -> setEmptyContent(S, res.noteId)
      [] name = "missingRevisionContent" -> S
      [] name = "searchNoteChildren" ->
            moveBranchesToRoot(S, rowsOf(childBranchSet(S, res.parentNoteId)))
      [] name = "emptyRelation" -> deleteAttribute(S, res.attributeId)
      [] name = "invalidAttributeType" ->
            saveEntity(S, "attributes", res.attributeId,
                       [S.attributes[res.attributeId] EXCEPT !.type = "label"])
      [] name = "attributeOfDeletedNote" -> deleteAttribute(S, res.attributeId)
      [] name = "relationToDeletedNote" -> deleteAttribute(S, res.attributeId)
      [] name = "missingEntityChange" ->
            [S EXCEPT !.entity_changes = @ \cup {<<entityName, res.entityId>>}]
      [] name = "extraEntityChange" ->
            [S EXCEPT !.entity_changes = @ \ {<<entityName, res.entityId>>}]

---------------------------------------------------------------------------
(* The consistency checker: findAndFixIssues and the methods of a run *)

\* the state of a run: the store, the fields of the ConsistencyChecks
\* object, the findings processed, the fixers that failed, and whether an
\* exception left the method
Running(S, running) ==
    [S |-> S, autoFix |-> running.autoFix,
     unrecoveredConsistencyErrors |-> running.unrecoveredConsistencyErrors,
     fixedIssues |-> running.fixedIssues,
     found |-> {}, failures |-> 0, threw |-> FALSE]

\* the name of a finding: the query and the row
Finding(name, entityName, res) == <<name, entityName, res.key>>

\* the body of the loop of findAndFixIssues for one row: the fixer runs in
\* a transaction of its own; in autofix mode it repairs, and it throws when
\* the finding is one of those whose repair fails
fixIssue(K, name, entityName, res, failing) ==
    LET fails == K.autoFix /\ Finding(name, entityName, res) \in failing
        r == transactional(K.S,
                 Outcome(IF K.autoFix THEN fixerCb(name, entityName, K.S, res) ELSE K.S,
                         NoResult, fails))
    IN [K EXCEPT
           !.S = r.S,
           !.fixedIssues = IF ~r.threw /\ K.autoFix THEN TRUE ELSE @,
           !.unrecoveredConsistencyErrors = IF r.threw \/ ~K.autoFix THEN TRUE ELSE @,
           !.found = @ \cup {Finding(name, entityName, res)},
           !.failures = IF r.threw THEN @ + 1 ELSE @]

RECURSIVE fixIssues(_, _, _, _, _)
fixIssues(K, name, entityName, results, failing) ==
    IF results = <<>> THEN K
    ELSE fixIssues(fixIssue(K, name, entityName, Head(results), failing),
                   name, entityName, Tail(results), failing)

\* findAndFixIssues(query, fixerCb): the rows are read once, then fixed one
\* by one
findAndFixIssues(K, name, entityName, failing) ==
    fixIssues(K, name, entityName, rowsOf(query(name, entityName, K.S)), failing)

\* a sequence of queries with their fixers, one after the other
RECURSIVE findAndFixAll(_, _, _, _)
findAndFixAll(K, names, entityName, failing) ==
    IF names = <<>> THEN K
    ELSE findAndFixAll(findAndFixIssues(K, Head(names), entityName, failing),
                       Tail(names), entityName, failing)

findBrokenReferenceIssues(K, failing) ==
    findAndFixAll(K, <<"branchMissingNote", "branchMissingParent",
                       "attributeMissingNote", "relationMissingTarget">>, "", failing)

findExistencyIssues(K, failing) ==
    findAndFixAll(K, <<"branchOfDeletedNote", "branchOfDeletedParent",
                       "noteWithoutBranch", "duplicateBranches">>, "", failing)

findLogicIssues(K, failing) ==
    findAndFixAll(K, <<"invalidNoteType", "missingContent", "nullContent",
                       "missingRevisionContent", "searchNoteChildren", "emptyRelation",
                       "invalidAttributeType", "attributeOfDeletedNote",
                       "relationToDeletedNote">>, "", failing)

runEntityChangeChecks(K, entityName, failing) ==
    findAndFixAll(K, <<"missingEntityChange", "extraEntityChange">>, entityName, failing)

RECURSIVE runEntityChangeChecksOf(_, _, _)
runEntityChangeChecksOf(K, entityNames, failing) ==
    IF entityNames = <<>> THEN K
    ELSE runEntityChangeChecksOf(runEntityChangeChecks(K, Head(entityNames), failing),
                                 Tail(entityNames), failing)

findEntityChangeIssues(K, failing) == runEntityChangeChecksOf(K, EntityNames, failing)

\* the characters an attribute name is made of besides letters and digits
NameCharacters == {"_", ":"}
\* the characters of the names of the model that are neither
OtherCharacters == {" ", "."}

\* attributeService.sanitizeAttributeName(origName): every character that
\* is not a letter, a digit, '_' or ':' becomes '_'; the empty name becomes
\* "unnamed"
sanitizeAttributeName(origName) ==
    IF origName = <<>> THEN <<"unnamed">>
    ELSE [i \in DOMAIN origName |->
             IF origName[i] \in OtherCharacters THEN "_" ELSE origName[i]]

\* UPDATE attributes SET name = fixedName WHERE name = origName
renameAttributes(S, origName, fixedName) ==
    [S EXCEPT !.attributes =
        [a \in DOMAIN @ |-> IF @[a].name = origName THEN [@[a] EXCEPT !.name = fixedName]
                            ELSE @[a]]]

\* an attribute that carries the name: it names the finding
attributeNamed(S, name) == CHOOSE a \in DOMAIN S.attributes : S.attributes[a].name = name

\* the loop of findWronglyNamedAttributes over the distinct names: the
\* UPDATE runs with no transaction and no try around it, so when it fails
\* the exception leaves the method
RECURSIVE renameWronglyNamed(_, _, _)
renameWronglyNamed(K, attrNames, failing) ==
    IF attrNames = <<>> \/ K.threw THEN K
    ELSE LET origName == Head(attrNames)
             fixedName == sanitizeAttributeName(origName)
             finding == <<"wronglyNamedAttribute", "", attributeNamed(K.S, origName)>>
             next ==
                IF fixedName = origName THEN K
                ELSE IF ~K.autoFix
                THEN [K EXCEPT !.unrecoveredConsistencyErrors = TRUE,
                               !.found = @ \cup {finding}]
                ELSE IF finding \in failing
                THEN [K EXCEPT !.threw = TRUE, !.found = @ \cup {finding},
                               !.failures = @ + 1]
                ELSE [K EXCEPT !.S = renameAttributes(@, origName, fixedName),
                               !.fixedIssues = TRUE, !.found = @ \cup {finding}]
         IN renameWronglyNamed(next, Tail(attrNames), failing)

findWronglyNamedAttributes(K, failing) ==
    renameWronglyNamed(K, rowsOf({K.S.attributes[a].name : a \in DOMAIN K.S.attributes}),
                       failing)

\* UPDATE branches SET isExpanded = 1 WHERE branchId = 'root'
expandRootBranch(K) ==
    IF "root" \in DOMAIN K.S.branches
    THEN [K EXCEPT !.S.branches["root"].isExpanded = TRUE]
    ELSE K

\* childToParents[noteId]: the non-deleted branches placing the note
childToParents(S, noteId) == {b \in liveBranches(S) : S.branches[b].noteId = noteId}

checkTreeCycle_parentless(S, noteId, path) ==
    noteId # ROOT /\ childToParents(S, noteId) = {}

\* checkTreeCycle(noteId, path): whether it reports an error
RECURSIVE checkTreeCycle(_, _, _)
checkTreeCycle(S, noteId, path) ==
    IF noteId = ROOT THEN FALSE
    ELSE IF childToParents(S, noteId) = {} THEN TRUE
    ELSE \E b \in childToParents(S, noteId) :
            LET parentNoteId == S.branches[b].parentNoteId
            IN IF parentNoteId \in path THEN TRUE
               ELSE checkTreeCycle(S, parentNoteId, path \cup {noteId})

\* the parent of root is not exactly 'none'
incorrectRootParent(S) ==
    \/ Cardinality(childToParents(S, ROOT)) # 1
    \/ \E b \in childToParents(S, ROOT) : S.branches[b].parentNoteId # NONE

\* checkTreeCycles(): reading childToParents['root'].length throws when no
\* non-deleted branch places root
checkTreeCycles(K) ==
    LET noteIds == {K.S.branches[b].noteId : b \in liveBranches(K.S)}
        cycle == \E noteId \in noteIds : checkTreeCycle(K.S, noteId, {})
    IN IF childToParents(K.S, ROOT) = {}
       THEN [K EXCEPT !.threw = TRUE,
                      !.unrecoveredConsistencyErrors = IF cycle THEN TRUE ELSE @]
       ELSE [K EXCEPT !.unrecoveredConsistencyErrors =
                          IF cycle \/ incorrectRootParent(K.S) THEN TRUE ELSE @]

basicChecksPassed_always(K) == TRUE

\* tree cycles are looked for only if the basic checks passed
basicChecksPassed(K) == ~K.unrecoveredConsistencyErrors

\* the methods runAllChecksAndFixers calls before the tree cycle check
BasicChecks ==
    <<"findBrokenReferenceIssues", "findExistencyIssues", "findLogicIssues",
      "findEntityChangeIssues", "findWronglyNamedAttributes", "expandRootBranch">>

\* one method of the run
runCheck(K, method, failing) ==
    CASE method = "findBrokenReferenceIssues" -> findBrokenReferenceIssues(K, failing)
      [] method = "findExistencyIssues" -> findExistencyIssues(K, failing)
      [] method = "findLogicIssues" -> findLogicIssues(K, failing)
      [] method = "findEntityChangeIssues" -> findEntityChangeIssues(K, failing)
      [] method = "findWronglyNamedAttributes" -> findWronglyNamedAttributes(K, failing)
      [] method = "expandRootBranch" -> expandRootBranch(K)
      [] method = "checkTreeCycles" -> checkTreeCycles(K)

RECURSIVE runChecks(_, _, _)
runChecks(K, methods, failing) ==
    IF methods = <<>> \/ K.threw THEN K
    ELSE LET next == runCheck(K, Head(methods), failing)
         IN runChecks(next, Tail(methods), failing)

\* runAllChecksAndFixers(): the flags are reset, the basic checks run, and
\* the tree cycle check runs if they left no unrecovered error
runAllChecksAndFixers(S, autoFix, failing) ==
    LET basic == runChecks(Running(S, ConsistencyChecks(autoFix)), BasicChecks, failing)
    IN IF basic.threw \/ ~basicChecksPassed(basic) THEN basic
       ELSE runChecks(basic, <<"checkTreeCycles">>, failing)

---------------------------------------------------------------------------
(* The stores the checker runs on and the steps of its runs *)

\* the tree of the checked stores: the first note under root, the second
\* under root and under the first, the third under the second
CheckedTree ==
    [n \in InitialNoteIds |->
        IF n = InitialNoteSeq[1] THEN {ROOT}
        ELSE IF n = InitialNoteSeq[2] THEN {ROOT, InitialNoteSeq[1]}
        ELSE {InitialNoteSeq[2]}]

\* a store with no violation: every row has its change record, the root
\* branch is collapsed
ConsistentDatabase ==
    LET S == InitialStore(CheckedTree)
    IN [notes |-> S.notes, contents |-> S.contents,
        branches |-> [b \in DOMAIN S.branches |-> CheckedBranchRow(S.branches[b], "", FALSE)],
        attributes |-> S.attributes,
        entity_changes |-> changesOf(S)]

\* the violations a store is seeded with, one for every query of the
\* battery, and a tree cycle
Violations ==
    <<"branchMissingNote", "branchMissingParent", "attributeMissingNote",
      "relationMissingTarget", "deletedNoteKeepsRows", "deletedParentKeepsChild",
      "noteWithoutBranch", "duplicateBranches", "invalidNoteType", "missingContent",
      "protectedMissingContent", "nullContent", "searchNoteChildren", "emptyRelation",
      "invalidAttributeType", "missingEntityChange", "extraEntityChange",
      "wronglyNamedAttribute", "treeCycle">>

\* a row added to a table together with its change record
seedRow(D, entityName, id, row) == saveEntity(D, entityName, id, row)

\* a table without one of its rows
withoutRow(table, id) == [x \in DOMAIN table \ {id} |-> table[x]]

\* a soft deleted row
deletedRow(row) == [row EXCEPT !.isDeleted = TRUE, !.deleteId = DeleteIdName(1)]

\* the store with one more violation
seed(D, violation) ==
    LET n1 == InitialNoteSeq[1]
        n2 == InitialNoteSeq[2]
        n3 == InitialNoteSeq[3]
    IN CASE violation = "branchMissingNote" ->
            seedRow(D, "branches", BranchName(ROOT, "ghost"),
                    CheckedBranchRow(BranchRow("ghost", ROOT, 3 * POSITION_GAP), "", FALSE))
      [] violation = "branchMissingParent" ->
            seedRow(D, "branches", BranchName("ghost", n3),
                    CheckedBranchRow(BranchRow(n3, "ghost", 0), "", FALSE))
      [] violation = "attributeMissingNote" ->
            seedRow(D, "attributes", "label_ghost",
                    AttributeRow("ghost", "label", <<"color">>, "red", FALSE))
      [] violation = "relationMissingTarget" ->
            [D EXCEPT !.attributes["rel_" \o n3].value = "ghost"]
      [] violation = "deletedNoteKeepsRows" ->
            [D EXCEPT !.notes[n3] = deletedRow(@)]
      [] violation = "deletedParentKeepsChild" ->
            [D EXCEPT !.notes[n1] = deletedRow(@),
                      !.branches[BranchName(ROOT, n1)] = deletedRow(@),
                      !.attributes = [a \in DOMAIN @ |->
                                         IF @[a].noteId = n1 THEN deletedRow(@[a]) ELSE @[a]]]
      [] violation = "noteWithoutBranch" ->
            [D EXCEPT !.branches[BranchName(n2, n3)] = deletedRow(@)]
      [] violation = "duplicateBranches" ->
            seedRow(D, "branches", BranchName(ROOT, n1) \o "_2",
                    CheckedBranchRow(BranchRow(n1, ROOT, POSITION_GAP \div 2), "", FALSE))
      [] violation = "invalidNoteType" ->
            [D EXCEPT !.notes[n3].type = "bogus"]
      [] violation = "missingContent" ->
            [D EXCEPT !.contents = withoutRow(@, n3),
                      !.entity_changes = @ \ {<<"note_contents", n3>>}]
      [] violation = "protectedMissingContent" ->
            [D EXCEPT !.notes[n2].isProtected = TRUE,
                      !.contents = withoutRow(@, n2),
                      !.entity_changes = @ \ {<<"note_contents", n2>>}]
      [] violation = "nullContent" ->
            [D EXCEPT !.contents[n1] = NULL_CONTENT]
      [] violation = "searchNoteChildren" ->
            [D EXCEPT !.notes[n1].type = "search"]
      [] violation = "emptyRelation" ->
            [D EXCEPT !.attributes["rel_" \o n1].value = ""]
      [] violation = "invalidAttributeType" ->
            [D EXCEPT !.attributes["label_n1"].type = "bogus"]
      [] violation = "missingEntityChange" ->
            [D EXCEPT !.entity_changes = @ \ {<<"notes", n1>>}]
      [] violation = "extraEntityChange" ->
            [D EXCEPT !.entity_changes = @ \cup {<<"branches", "gone">>}]
      [] violation = "wronglyNamedAttribute" ->
            [D EXCEPT !.attributes["label_n1"].name = <<"my", " ", "color">>]
      [] violation = "treeCycle" ->
            seedRow(D, "branches", BranchName(n3, n1),
                    CheckedBranchRow(BranchRow(n1, n3, POSITION_GAP), "", FALSE))

\* the store with the violations of a set, seeded in the order of Violations
RECURSIVE seeded(_, _, _)
seeded(D, violations, i) ==
    IF i > Len(Violations) THEN D
    ELSE seeded(IF Violations[i] \in violations THEN seed(D, Violations[i]) ELSE D,
                violations, i + 1)

ViolationSets ==
    {vs \in SUBSET {Violations[i] : i \in DOMAIN Violations} :
        Cardinality(vs) <= MaxViolations}

DatabaseIs(D) ==
    /\ StoreIs(D)
    /\ entity_changes = D.entity_changes

\* a checker is constructed, with autofix or without, over a store with
\* some violations
InitCheck ==
    /\ \E vs \in ViolationSets : DatabaseIs(seeded(ConsistentDatabase, vs, 1))
    /\ \E autoFix \in BOOLEAN : checker = ConsistencyChecks(autoFix)
    /\ calls = 0
    /\ NoRunChecks

\* the sets of findings whose repair fails in one step: none, or one of the
\* findings of the step
Failings(method) ==
    {{}} \cup {{f} : f \in runCheck(Running(Database, checker), method, {}).found}

\* a method of the run has been executed: the store and the flags are what
\* it left, and the run goes on with the next method unless it threw
Executed(K, method, next) ==
    /\ checker.failures + K.failures <= MaxFailures
    /\ notes' = K.S.notes
    /\ contents' = K.S.contents
    /\ branches' = K.S.branches
    /\ attributes' = K.S.attributes
    /\ entity_changes' = K.S.entity_changes
    /\ checker' = [checker EXCEPT
           !.unrecoveredConsistencyErrors = K.unrecoveredConsistencyErrors,
           !.fixedIssues = K.fixedIssues,
           !.pc = IF K.threw THEN "threw" ELSE next,
           !.executed = Append(@, method),
           !.failures = @ + K.failures,
           !.failed = @ \/ K.failures > 0,
           !.found = @ \/ K.found # {}]
    /\ UNCHANGED <<calls, sync_mutex, ws, frontend, editing, now>>

\* a step of the run: the method the run is at, with some repair failing
Check(method, next) ==
    /\ checker.pc = method
    /\ \E failing \in Failings(method) :
        Executed(runCheck(Running(Database, checker), method, failing), method, next)

\* runAllChecksAndFixers() is called: the flags are reset
RunAllChecksAndFixers ==
    /\ checker.pc \in {"idle", "returned", "threw"}
    /\ checker.runs < MaxRuns
    /\ checker' = [checker EXCEPT
           !.unrecoveredConsistencyErrors = FALSE, !.fixedIssues = FALSE,
           !.pc = "findBrokenReferenceIssues", !.executed = <<>>,
           !.runs = @ + 1, !.failed = FALSE, !.found = FALSE]
    /\ UNCHANGED <<notes, contents, branches, attributes, calls, entity_changes,
                   sync_mutex, ws, frontend, editing, now>>

FindBrokenReferenceIssues == Check("findBrokenReferenceIssues", "findExistencyIssues")
FindExistencyIssues == Check("findExistencyIssues", "findLogicIssues")
FindLogicIssues == Check("findLogicIssues", "findEntityChangeIssues")
FindEntityChangeIssues == Check("findEntityChangeIssues", "findWronglyNamedAttributes")
FindWronglyNamedAttributes == Check("findWronglyNamedAttributes", "expandRootBranch")

\* the root branch is expanded, and the run goes on with the tree cycle
\* check if the basic checks passed, else it returns
ExpandRootBranch ==
    /\ checker.pc = "expandRootBranch"
    /\ LET K == runCheck(Running(Database, checker), "expandRootBranch", {})
       IN Executed(K, "expandRootBranch",
                   IF basicChecksPassed(K) THEN "checkTreeCycles" ELSE "returned")

CheckTreeCycles == Check("checkTreeCycles", "returned")

NextCheck ==
    \/ RunAllChecksAndFixers
    \/ FindBrokenReferenceIssues
    \/ FindExistencyIssues
    \/ FindLogicIssues
    \/ FindEntityChangeIssues
    \/ FindWronglyNamedAttributes
    \/ ExpandRootBranch
    \/ CheckTreeCycles

SpecCheck == InitCheck /\ [][NextCheck]_vars

---------------------------------------------------------------------------
(* The graphs of branches the tree cycle check is applied to *)

\* branches of a graph the tree cycle check is applied to
MaxBranches == 4

\* the notes of the graphs: root and the first two notes
GraphNotes == {ROOT, InitialNoteSeq[1], InitialNoteSeq[2]}

\* a placement of a note under a parent, 'none' included
GraphEdges == {e \in GraphNotes \X (GraphNotes \cup {NONE}) : TRUE}

\* the id of the branch of an edge <<noteId, parentNoteId>>: the branch of
\* root under 'none' is the branch 'root'
EdgeBranchId(e) ==
    IF e = <<ROOT, NONE>> THEN "root" ELSE BranchName(e[2], e[1])

\* the table of the branches of a set of edges, those of deleted being soft
\* deleted
GraphBranches(edges, deleted) ==
    [b \in {EdgeBranchId(e) : e \in edges} |->
        LET e == CHOOSE x \in edges : EdgeBranchId(x) = b
            row == CheckedBranchRow(BranchRow(e[1], e[2], 0), "", FALSE)
        IN IF e \in deleted THEN deletedRow(row) ELSE row]

\* the store of a graph: the notes of the graph, with no attribute
GraphDatabase(edges, deleted) ==
    LET S == [notes |-> [n \in GraphNotes |-> NoteRow("text", <<"t">>)],
              contents |-> [n \in GraphNotes |-> {}],
              branches |-> GraphBranches(edges, deleted),
              attributes |-> [a \in {} |-> {}]]
    IN [notes |-> S.notes, contents |-> S.contents, branches |-> S.branches,
        attributes |-> S.attributes, entity_changes |-> changesOf(S)]

\* a run has got to the tree cycle check over any graph of a few branches,
\* at most one of them deleted
InitCycles ==
    /\ \E edges \in {g \in SUBSET GraphEdges : Cardinality(g) <= MaxBranches} :
       \E deleted \in {{}} \cup {{e} : e \in edges} :
          DatabaseIs(GraphDatabase(edges, deleted))
    /\ \E autoFix \in BOOLEAN :
          checker = [ConsistencyChecks(autoFix) EXCEPT
                        !.pc = "checkTreeCycles", !.executed = BasicChecks, !.runs = 1]
    /\ calls = 0
    /\ NoRunChecks

NextCycles == CheckTreeCycles

SpecCycles == InitCycles /\ [][NextCycles]_vars

---------------------------------------------------------------------------
(* runChecks: the run in the exclusive section, among the requests that    *)
(* change the store.  The callback runChecks passes to doExclusively has   *)
(* no await in it and the queries of sql are synchronous: from its first   *)
(* statement to its last no other callback of the process runs.            *)

\* requests that change the store in a behaviour with checker runs
MaxRequests == 1

callbackRunning_never(c) == FALSE

\* the callback of doExclusively is executing: the run is at one of the
\* methods of runAllChecksAndFixers
callbackRunning(c) ==
    c.pc \in {BasicChecks[i] : i \in DOMAIN BasicChecks} \cup {"checkTreeCycles"}

\* the violations the stores of these behaviours are seeded with
RunViolationSets ==
    {{}, {"wronglyNamedAttribute"}, {"treeCycle"}}

InitRuns ==
    /\ \E vs \in RunViolationSets : DatabaseIs(seeded(ConsistentDatabase, vs, 1))
    /\ checker = ConsistencyChecks(FALSE)
    /\ calls = 0
    /\ NoRunChecks

\* runPeriodicChecks() or runOnDemandChecks(autoFix): a checker is
\* constructed and its runChecks() awaits the exclusive section
RunChecks ==
    /\ ~callbackRunning(checker)
    /\ checker.runs + Len(sync_mutex.waiting) < MaxRuns
    /\ \E autoFix \in BOOLEAN :
          sync_mutex' = [sync_mutex EXCEPT !.waiting = Append(@, autoFix)]
    /\ UNCHANGED <<notes, contents, branches, attributes, calls, entity_changes,
                   checker, ws, frontend, editing, now>>

\* the exclusive section is free and is given to the first call waiting:
\* its callback starts, runAllChecksAndFixers resets the flags
DoExclusively ==
    /\ ~callbackRunning(checker)
    /\ ~sync_mutex.held
    /\ sync_mutex.waiting # <<>>
    /\ sync_mutex' = [sync_mutex EXCEPT !.held = TRUE, !.waiting = Tail(@)]
    /\ checker' = [ConsistencyChecks(Head(sync_mutex.waiting)) EXCEPT
                      !.pc = "findBrokenReferenceIssues",
                      !.runs = checker.runs + 1,
                      !.failures = checker.failures]
    /\ UNCHANGED <<notes, contents, branches, attributes, calls, entity_changes, ws,
                   frontend, editing, now>>

\* what runChecks finds when doExclusively has settled
Settled(c) ==
    [run |-> c.runs,
     unrecoveredConsistencyErrors |-> c.unrecoveredConsistencyErrors,
     failed |-> c.failed, threw |-> c.pc = "threw", continued |-> FALSE]

\* the callback has returned or thrown: the exclusive section is released
\* and the promise of doExclusively settles
Release ==
    /\ sync_mutex.held
    /\ checker.pc \in {"returned", "threw"}
    /\ sync_mutex' = [sync_mutex EXCEPT !.held = FALSE,
                                        !.settled = Append(@, Settled(checker))]
    /\ UNCHANGED <<notes, contents, branches, attributes, calls, entity_changes,
                   checker, ws, frontend, editing, now>>

\* runChecks goes on after the await: when the callback threw, the await
\* throws and nothing more of runChecks is executed; else the message is
\* sent if the run left unrecoveredConsistencyErrors set
Continue ==
    /\ ~callbackRunning(checker)
    /\ \E i \in DOMAIN sync_mutex.settled :
          /\ ~sync_mutex.settled[i].continued
          /\ sync_mutex' = [sync_mutex EXCEPT !.settled[i].continued = TRUE]
          /\ ws' = IF /\ ~sync_mutex.settled[i].threw
                      /\ sync_mutex.settled[i].unrecoveredConsistencyErrors
                   THEN Append(ws, [type |-> "consistency-checks-failed",
                                    run |-> sync_mutex.settled[i].run])
                   ELSE ws
    /\ UNCHANGED <<notes, contents, branches, attributes, calls, entity_changes,
                   checker, frontend, editing, now>>

\* a request that deletes a branch or undeletes a note is served when no
\* callback is executing
DeleteBranchRequest ==
    /\ ~callbackRunning(checker)
    /\ calls < MaxRequests
    /\ DeleteBranch

UndeleteNoteRequest ==
    /\ ~callbackRunning(checker)
    /\ calls < MaxRequests
    /\ UndeleteNote

NextRuns ==
    \/ RunChecks
    \/ DoExclusively
    \/ FindBrokenReferenceIssues
    \/ FindExistencyIssues
    \/ FindLogicIssues
    \/ FindEntityChangeIssues
    \/ FindWronglyNamedAttributes
    \/ ExpandRootBranch
    \/ CheckTreeCycles
    \/ Release
    \/ Continue
    \/ DeleteBranchRequest
    \/ UndeleteNoteRequest

SpecRuns == InitRuns /\ [][NextRuns]_vars

---------------------------------------------------------------------------
(* The frontend's notes: getAttributes with its memoized lists            *)

\* the depth of calls the engine allows; a deeper call throws
MaxCallStack == 6

\* the changes of a note's own attributes in a behaviour
MaxEdits == 1

\* the template relations of a graph
MaxTemplates == 2

LABEL == "label"

RELATION == "relation"

includes_never(path, noteId) == FALSE

\* path.includes(noteId)
includes(path, noteId) == \E i \in DOMAIN path : path[i] = noteId

\* attrs.filter(attr => attr.isInheritable)
inheritableOf(attrs) == SelectSeq(attrs, LAMBDA attr : attr.isInheritable)

\* attrArrs.flat().filter(attr => attr.type === 'relation' && attr.name === 'template')
templateAttrsOf(attrs) ==
    SelectSeq(attrs, LAMBDA attr : attr.type = RELATION /\ attr.name = "template")

\* the attributes of a list, each attributeId once, in the list's order
RECURSIVE addedOnce(_, _, _)
addedOnce(attrs, addedAttributeIds, list) ==
    IF attrs = <<>> THEN list
    ELSE IF Head(attrs).attributeId \in addedAttributeIds
         THEN addedOnce(Tail(attrs), addedAttributeIds, list)
         ELSE addedOnce(Tail(attrs),
                        addedAttributeIds \cup {Head(attrs).attributeId},
                        Append(list, Head(attrs)))

\* this.attributes.map(attributeId => treeCache.attributes[attributeId]).filter(Boolean)
NoteShort_getOwnedAttributes(tc, noteId) ==
    LET ids == SelectSeq(tc.notes[noteId].attributes,
                         LAMBDA attributeId : attributeId \in DOMAIN tc.attributes)
    IN  [i \in DOMAIN ids |-> tc.attributes[ids[i]]]

\* treeCache.getNotesFromCache(this.parents)
NoteShort_getParentNotes(tc, noteId) ==
    SelectSeq(tc.notes[noteId].parents, LAMBDA p : p \in DOMAIN tc.notes)

\* the result of a call: the memoized lists after it, the list returned,
\* and whether the call stack was exhausted
Attrs(cache, ret, threw) == [cache |-> cache, ret |-> ret, threw |-> threw]

RECURSIVE __getCachedAttributes(_, _, _, _)
RECURSIVE __getInheritableAttributes(_, _, _, _)
RECURSIVE parentsInheritable(_, _, _, _)
RECURSIVE templatesCached(_, _, _, _, _)

\* the loop over NoteShort_getParentNotes(): the inheritable attributes of each parent
\* that is not a search note, the memoized lists handed from call to call
parentsInheritable(tc, R, parentNotes, newPath) ==
    IF parentNotes = <<>> \/ R.threw THEN R
    ELSE IF tc.notes[Head(parentNotes)].type = "search"
         THEN parentsInheritable(tc, R, Tail(parentNotes), newPath)
         ELSE LET r == __getInheritableAttributes(tc, R.cache, Head(parentNotes), newPath)
              IN  parentsInheritable(tc, Attrs(r.cache, R.ret \o r.ret, r.threw),
                                     Tail(parentNotes), newPath)

\* the loop over the template relations found so far: the attributes of each
\* template note that is loaded and is not the note itself
templatesCached(tc, R, noteId, templateAttrs, newPath) ==
    IF templateAttrs = <<>> \/ R.threw THEN R
    ELSE LET value == Head(templateAttrs).value
         IN  IF value \in DOMAIN tc.notes /\ value # noteId
             THEN LET r == __getCachedAttributes(tc, R.cache, value, newPath)
                  IN  templatesCached(tc, Attrs(r.cache, R.ret \o r.ret, r.threw),
                                      noteId, Tail(templateAttrs), newPath)
             ELSE templatesCached(tc, R, noteId, Tail(templateAttrs), newPath)

\* __getCachedAttributes(path): a call deeper than the call stack throws
__getCachedAttributes(tc, cache, noteId, path) ==
    IF Len(path) >= MaxCallStack THEN Attrs(cache, <<>>, TRUE)
    ELSE IF includes(path, noteId) THEN Attrs(cache, <<>>, FALSE)
    ELSE IF noteId \in DOMAIN cache.attributes
         THEN Attrs(cache, cache.attributes[noteId], FALSE)
    ELSE
        LET newPath == Append(path, noteId)
            own == Attrs(cache, NoteShort_getOwnedAttributes(tc, noteId), FALSE)
            inherited == IF noteId # ROOT
                         THEN parentsInheritable(tc, own, NoteShort_getParentNotes(tc, noteId),
                                                 newPath)
                         ELSE own
            all == templatesCached(tc, inherited, noteId,
                                   templateAttrsOf(inherited.ret), newPath)
            list == addedOnce(all.ret, {}, <<>>)
        IN  IF all.threw THEN Attrs(all.cache, <<>>, TRUE)
            ELSE Attrs([attributes |-> (noteId :> list) @@ all.cache.attributes],
                       list, FALSE)

\* __getInheritableAttributes(path)
__getInheritableAttributes(tc, cache, noteId, path) ==
    LET r == __getCachedAttributes(tc, cache, noteId, path)
    IN  Attrs(r.cache, inheritableOf(r.ret), r.threw)

\* getAttributes() with no filter
NoteShort_getAttributes(tc, cache, noteId) == __getCachedAttributes(tc, cache, noteId, <<>>)

\* invalidateAttributeCache()
invalidateAttributeCache(tc, noteId) ==
    [tc EXCEPT !.notes[noteId].__attributeCache = "null"]

\* the notes the frontend has loaded
LoadedNotes == {ROOT, InitialNoteSeq[1], InitialNoteSeq[2]}

\* the two labels every loaded note owns at first
labelOf(noteId, isInheritable) ==
    [attributeId |-> noteId \o (IF isInheritable THEN "_inheritable" ELSE "_label"),
     noteId |-> noteId, type |-> LABEL,
     name |-> IF isInheritable THEN "inheritable" ELSE "label",
     value |-> noteId, isInheritable |-> isInheritable]

\* a template relation of a note
templateOf(noteId, value, isInheritable) ==
    [attributeId |-> noteId \o "_template_" \o value,
     noteId |-> noteId, type |-> RELATION, name |-> "template",
     value |-> value, isInheritable |-> isInheritable]

TemplateLinks ==
    {t \in LoadedNotes \X LoadedNotes \X BOOLEAN : t[1] # t[2]}

\* the lists of parents of the two notes under root: a note may have two
\* parents, and the two notes may be each other's parent
ParentLists ==
    {<<p1, p2>> \in
        {<<ROOT>>, <<ROOT, InitialNoteSeq[2]>>, <<InitialNoteSeq[2]>>}
        \X {<<ROOT>>, <<InitialNoteSeq[1]>>} : TRUE}

\* the attributes of a note in the order they were loaded
RECURSIVE idsInOrder(_)
idsInOrder(ids) ==
    IF ids = {} THEN <<>>
    ELSE LET attributeId == CHOOSE x \in ids : \A y \in ids : Len(x) <= Len(y)
         IN  <<attributeId>> \o idsInOrder(ids \ {attributeId})

\* the frontend's cache of a graph of parents and template relations
TreeCacheOf(parents, searchNotes, templates) ==
    LET attrs == {labelOf(n, b) : n \in LoadedNotes, b \in BOOLEAN}
                 \cup {templateOf(t[1], t[2], t[3]) : t \in templates}
    IN  [notes |->
            [n \in LoadedNotes |->
                [noteId |-> n,
                 type |-> IF n \in searchNotes THEN "search" ELSE "text",
                 parents |-> IF n = ROOT THEN <<>>
                             ELSE IF n = InitialNoteSeq[1] THEN parents[1]
                             ELSE parents[2],
                 attributes |-> idsInOrder({a.attributeId : a \in {x \in attrs : x.noteId = n}}),
                 __attributeCache |-> "undefined"]],
         attributes |-> [id \in {a.attributeId : a \in attrs} |->
                            CHOOSE a \in attrs : a.attributeId = id]]

InitAttributes ==
    /\ DatabaseIs(ConsistentDatabase)
    /\ checker = ConsistencyChecks(FALSE)
    /\ calls = 0
    /\ sync_mutex = [held |-> FALSE, waiting |-> <<>>, settled |-> <<>>]
    /\ ws = <<>>
    /\ \E parents \in ParentLists, searchNotes \in SUBSET {InitialNoteSeq[2]},
          templates \in SUBSET TemplateLinks :
          /\ Cardinality(templates) <= MaxTemplates
          /\ \A s, t \in templates : (s[1] = t[1] /\ s[2] = t[2]) => s = t
          /\ treeCache = TreeCacheOf(parents, searchNotes, templates)
    /\ noteAttributeCache = [attributes |-> <<>>]
    /\ now = 0
    /\ NothingEdited

\* getAttributes() of a loaded note: the lists it computes are memoized
GetAttributes ==
    /\ \E noteId \in DOMAIN treeCache.notes :
          noteAttributeCache' =
              NoteShort_getAttributes(treeCache, noteAttributeCache, noteId).cache
    /\ UNCHANGED <<notes, contents, branches, attributes, calls, entity_changes,
                   checker, sync_mutex, ws, treeCache, editing, now>>

\* the note's label is removed from its own attributes, or loaded again
ownAttributesChanged(tc, noteId) ==
    LET label == labelOf(noteId, FALSE)
    IN  IF label.attributeId \in DOMAIN tc.attributes
        THEN [tc EXCEPT
                !.attributes = [id \in DOMAIN @ \ {label.attributeId} |-> @[id]],
                !.notes[noteId].attributes =
                    SelectSeq(@, LAMBDA id : id # label.attributeId)]
        ELSE [tc EXCEPT
                !.attributes = (label.attributeId :> label) @@ @,
                !.notes[noteId].attributes = Append(@, label.attributeId)]

\* the own attributes of a note change and its invalidateAttributeCache()
\* is called
AttributeChanged ==
    /\ calls < MaxEdits
    /\ \E noteId \in DOMAIN treeCache.notes :
          treeCache' = invalidateAttributeCache(ownAttributesChanged(treeCache, noteId),
                                                noteId)
    /\ calls' = calls + 1
    /\ UNCHANGED <<notes, contents, branches, attributes, entity_changes,
                   checker, sync_mutex, ws, noteAttributeCache,
                   editing, now>>

NextAttributes ==
    \/ GetAttributes
    \/ AttributeChanged

SpecAttributes == InitAttributes /\ [][NextAttributes]_vars

---------------------------------------------------------------------------
(* Erasing the rows that were deleted: eraseDeletedEntities                *)

\* the latest date, and the longest retention time, in units
MaxAge == 2

\* the requests that change the store in a behaviour with erasure
MaxDatedCalls == 3

withoutRows(rows, ids) == [id \in DOMAIN rows \ ids |-> rows[id]]

\* UPDATE entity_changes SET isErased = 1 WHERE entityName = ... AND entityId IN (...)
setErased(changes, entityName, ids) ==
    {IF c.entityName = entityName /\ c.entityId \in ids
     THEN [c EXCEPT !.isErased = TRUE] ELSE c : c \in changes}

eraseBranches_rows(E, branchIdsToErase) ==
    [E EXCEPT !.branches = withoutRows(@, branchIdsToErase)]

eraseBranches(E, branchIdsToErase) ==
    IF branchIdsToErase = {} THEN E
    ELSE [E EXCEPT !.branches = withoutRows(@, branchIdsToErase),
                   !.entity_changes = setErased(@, "branches", branchIdsToErase)]

eraseAttributes(E, attributeIdsToErase) ==
    IF attributeIdsToErase = {} THEN E
    ELSE [E EXCEPT !.attributes = withoutRows(@, attributeIdsToErase),
                   !.entity_changes = setErased(@, "attributes", attributeIdsToErase)]

eraseNotes(E, noteIdsToErase) ==
    IF noteIdsToErase = {} THEN E
    ELSE LET E1 == [E EXCEPT
                      !.notes = withoutRows(@, noteIdsToErase),
                      !.contents = withoutRows(@, noteIdsToErase),
                      !.entity_changes =
                          setErased(setErased(@, "notes", noteIdsToErase),
                                    "note_contents", noteIdsToErase)]
             branchIdsToErase ==
                 {b \in DOMAIN E1.branches : E1.branches[b].noteId \in noteIdsToErase}
             E2 == eraseBranches(E1, branchIdsToErase)
             attributeIdsToErase ==
                 {a \in DOMAIN E2.attributes :
                     E2.attributes[a].noteId \in noteIdsToErase}
         IN  eraseAttributes(E2, attributeIdsToErase)

\* SELECT ... WHERE isDeleted = 1 AND utcDateModified <= cutoffDate
deletedBefore(rows, cutoffDate) ==
    {id \in DOMAIN rows : rows[id].isDeleted /\ rows[id].utcDateModified <= cutoffDate}

eraseDeletedEntities(E, date, eraseEntitiesAfterTimeInSeconds) ==
    LET cutoffDate == date - eraseEntitiesAfterTimeInSeconds
        E1 == eraseNotes(E, deletedBefore(E.notes, cutoffDate))
        E2 == eraseBranches(E1, deletedBefore(E1.branches, cutoffDate))
    IN  eraseAttributes(E2, deletedBefore(E2.attributes, cutoffDate))

\* the rows of notes, branches or attributes after a request: a row that
\* was saved carries the date of the request
savedAt(rows, before, date) ==
    [id \in DOMAIN rows |->
        IF id \in DOMAIN before /\ before[id] = rows[id] THEN rows[id]
        ELSE [utcDateModified |-> date] @@ rows[id]]

\* the rows of a table that a request saved
savedIds(rows, before) ==
    {id \in DOMAIN rows : id \notin DOMAIN before \/ before[id] # rows[id]}

\* the change records of the rows of a table
changeRecords(entityName, ids) ==
    {[entityName |-> entityName, entityId |-> id, isErased |-> FALSE] : id \in ids}

\* the journal after a request: every row saved has its record, not erased
changesAfter(changes, S, T) ==
    LET saved == changeRecords("notes", savedIds(T.notes, S.notes))
                 \cup changeRecords("note_contents", savedIds(T.contents, S.contents))
                 \cup changeRecords("branches", savedIds(T.branches, S.branches))
                 \cup changeRecords("attributes", savedIds(T.attributes, S.attributes))
    IN  {c \in changes :
            ~\E d \in saved : d.entityName = c.entityName /\ d.entityId = c.entityId}
        \cup saved

NoRows == [notes |-> <<>>, contents |-> <<>>, branches |-> <<>>, attributes |-> <<>>]

\* the initial trees of the behaviours with erasure: every note in one place
SinglePlacements == {p \in ParentChoices : \A n \in InitialNoteIds : Cardinality(p[n]) = 1}

InitErase ==
    /\ \E p \in SinglePlacements :
          LET T == InitialStore(p)
          IN  /\ notes = savedAt(T.notes, <<>>, 0)
              /\ contents = T.contents
              /\ branches = savedAt(T.branches, <<>>, 0)
              /\ attributes = savedAt(T.attributes, <<>>, 0)
              /\ entity_changes = changesAfter({}, NoRows, T)
    /\ checker = ConsistencyChecks(FALSE)
    /\ calls = 0
    /\ NoRunChecks

\* the store after a request made now
SavedNow(T) ==
    /\ notes' = savedAt(T.notes, notes, now)
    /\ contents' = T.contents
    /\ branches' = savedAt(T.branches, branches, now)
    /\ attributes' = savedAt(T.attributes, attributes, now)
    /\ entity_changes' = changesAfter(entity_changes, Store, T)
    /\ calls' = IF T = Store THEN calls ELSE calls + 1
    /\ UNCHANGED <<checker, sync_mutex, ws, frontend, editing, now>>

\* a request deletes a branch, no note being hoisted
DeleteBranchNow ==
    /\ calls < MaxDatedCalls
    /\ \E b \in BranchArgs(Store), D \in CallDeleteIds(Store) :
        SavedNow(deleteBranch(Store, b, D, ROOT).S)

UndeleteNoteNow ==
    /\ calls < MaxDatedCalls
    /\ \E n \in DOMAIN notes, D \in CallDeleteIds(Store) :
        SavedNow(undeleteNote(Store, n, D))

TimePasses ==
    /\ now < MaxAge
    /\ now' = now + 1
    /\ UNCHANGED <<notes, contents, branches, attributes, calls, entity_changes,
                   checker, sync_mutex, ws, frontend, editing>>

\* eraseDeletedEntities() with the retention time of the options, or
\* eraseDeletedNotesNow()
EraseDeletedEntities ==
    /\ \E eraseEntitiesAfterTimeInSeconds \in 0..MaxAge :
          LET E == eraseDeletedEntities(Database, now, eraseEntitiesAfterTimeInSeconds)
          IN  /\ notes' = E.notes
              /\ contents' = E.contents
              /\ branches' = E.branches
              /\ attributes' = E.attributes
              /\ entity_changes' = E.entity_changes
    /\ UNCHANGED <<calls, checker, sync_mutex, ws, frontend, editing, now>>

NextErase ==
    \/ DeleteBranchNow
    \/ UndeleteNoteNow
    \/ TimePasses
    \/ EraseDeletedEntities

SpecErase == InitErase /\ [][NextErase]_vars

---------------------------------------------------------------------------
(* Claims about deleteBranch and undeleteNote.  A claim about one call is   *)
(* stated over every call that can be made in a reachable state: the call's *)
(* operator is applied to the state's store for every argument.             *)

\* the arguments of a deleteBranch call in the current state
DeleteCalls == BranchArgs(Store) \X DeleteIds \X (DOMAIN notes)
DeleteResult(c) == deleteBranch(Store, c[1], c[2], c[3])

\* attribute a is owned by note n or is a relation whose value is n
OwnedOrTargeting(S, a, n) ==
    \/ S.attributes[a].noteId = n
    \/ S.attributes[a].type = "relation" /\ S.attributes[a].value = n

\* branch b is non-deleted and is the only non-deleted branch of its note
IsLastBranch(S, b) ==
    /\ b \in DOMAIN S.branches
    /\ ~S.branches[b].isDeleted
    /\ \A c \in DOMAIN S.branches :
        (S.branches[c].noteId = S.branches[b].noteId /\ ~S.branches[c].isDeleted)
            => c = b

\* C1: when deleteBranch(b, D) returns after marking the last non-deleted
\* branch of note N, then N is deleted, every attribute owned by N or relation
\* targeting N that was non-deleted before the call is deleted, and N, b and
\* all those attributes carry deleteId D.
C1_LastBranchDeletesNote ==
    \A c \in DeleteCalls :
        LET r == DeleteResult(c)
            b == c[1]
            D == c[2]
        IN (IsLastBranch(Store, b) /\ ~r.threw) =>
            LET N == branches[b].noteId
            IN /\ r.S.notes[N].isDeleted /\ r.S.notes[N].deleteId = D
               /\ r.S.branches[b].isDeleted /\ r.S.branches[b].deleteId = D
               /\ \A a \in DOMAIN attributes :
                    (~attributes[a].isDeleted /\ OwnedOrTargeting(Store, a, N))
                        => /\ r.S.attributes[a].isDeleted
                           /\ r.S.attributes[a].deleteId = D

\* C1 witness: a note is deleted under D together with an attribute it owns
\* and a relation that targets it from a note that is not deleted.
C1_Witness ==
    \E N \in DOMAIN notes, a1, a2 \in DOMAIN attributes :
        /\ notes[N].isDeleted
        /\ attributes[a1].noteId = N /\ attributes[a1].isDeleted
        /\ attributes[a1].deleteId = notes[N].deleteId
        /\ attributes[a2].noteId # N /\ ~notes[attributes[a2].noteId].isDeleted
        /\ attributes[a2].type = "relation" /\ attributes[a2].value = N
        /\ attributes[a2].isDeleted /\ attributes[a2].deleteId = notes[N].deleteId

\* the arguments of an undeleteNote call in the current state
UndeleteCalls == (DOMAIN notes) \X DeleteIds
UndeleteResult(c) == undeleteNote(Store, c[1], c[2])

\* C2: undeleteNote(note, D) leaves every branch, note and attribute that is
\* deleted under a deleteId other than D deleted, with its deleteId unchanged.
C2_UndeleteOnlyMatchingDeleteId ==
    \A c \in UndeleteCalls :
        LET T == UndeleteResult(c)
            D == c[2]
        IN /\ \A b \in DOMAIN branches :
                (branches[b].isDeleted /\ branches[b].deleteId # D)
                    => T.branches[b] = branches[b]
           /\ \A n \in DOMAIN notes :
                (notes[n].isDeleted /\ notes[n].deleteId # D)
                    => T.notes[n] = notes[n]
           /\ \A a \in DOMAIN attributes :
                (attributes[a].isDeleted /\ attributes[a].deleteId # D)
                    => T.attributes[a] = attributes[a]

\* C2 witness: a note was undeleted (one of its branches is non-deleted and
\* still carries the deleteId it was deleted under) while another branch of
\* it and an attribute that it owns or that targets it stay deleted under
\* another deleteId.
C2_Witness ==
    \E b1, b2 \in DOMAIN branches, a \in DOMAIN attributes :
        /\ branches[b1].noteId = branches[b2].noteId
        /\ ~notes[branches[b1].noteId].isDeleted
        /\ ~branches[b1].isDeleted /\ branches[b1].deleteId # NoDeleteId
        /\ branches[b2].isDeleted /\ branches[b2].deleteId # branches[b1].deleteId
        /\ OwnedOrTargeting(Store, a, branches[b1].noteId)
        /\ attributes[a].isDeleted /\ attributes[a].deleteId # branches[b1].deleteId

\* no non-deleted branch lies under a deleted parent note
NoBranchUnderDeletedParent(S) ==
    \A b \in DOMAIN S.branches :
        (~S.branches[b].isDeleted /\ S.branches[b].parentNoteId \in DOMAIN S.notes)
            => ~S.notes[S.branches[b].parentNoteId].isDeleted

\* the note has a branch deleted under D whose parent note is not deleted
HasRestorableBranch(S, n, D) ==
    \E b \in DOMAIN S.branches :
        /\ S.branches[b].noteId = n
        /\ S.branches[b].isDeleted /\ S.branches[b].deleteId = D
        /\ S.branches[b].parentNoteId \in DOMAIN S.notes
        /\ ~S.notes[S.branches[b].parentNoteId].isDeleted

\* C3: undeleteNote(note, D) changes nothing when the note has no branch
\* deleted under D with a non-deleted parent note, and no call of it leaves a
\* non-deleted branch under a deleted parent note.
C3_NoOrphanResurrection ==
    \A c \in UndeleteCalls :
        LET T == UndeleteResult(c)
        IN /\ ~HasRestorableBranch(Store, c[1], c[2]) => T = Store
           /\ NoBranchUnderDeletedParent(T)

\* C3 witness: a note has a branch deleted under D, every such branch lies
\* under a deleted parent, and the note is deleted under D too: the call
\* undeleteNote(note, D) finds work it must not do.
C3_Witness ==
    \E n \in DOMAIN notes, b \in DOMAIN branches :
        /\ calls > 0
        /\ notes[n].isDeleted
        /\ branches[b].noteId = n /\ branches[b].isDeleted
        /\ branches[b].deleteId = notes[n].deleteId
        /\ notes[branches[b].parentNoteId].isDeleted
        /\ ~HasRestorableBranch(Store, n, notes[n].deleteId)

\* the rows tied to note N: its branches, the attributes it owns and the
\* relations that target it
BranchesOf(S, N) == {b \in DOMAIN S.branches : S.branches[b].noteId = N}
AttributesTiedTo(S, N) == {a \in DOMAIN S.attributes : OwnedOrTargeting(S, a, N)}

C5_ThrowLeavesNoPartialState ==
    \A c \in DeleteCalls :
        LET r == DeleteResult(c)
            b == c[1]
            h == c[3]
        IN /\ (b \in DOMAIN branches /\ ~branches[b].isDeleted
                /\ (b = ROOT \/ branches[b].noteId = ROOT \/ branches[b].noteId = h))
                    => r.threw
           /\ r.threw => r.S = Store

\* the first half of C5 alone, which the code satisfies
C5_ThrowsOnRootOrHoisted ==
    \A c \in DeleteCalls :
        LET r == DeleteResult(c)
            b == c[1]
            h == c[3]
        IN (b \in DOMAIN branches /\ ~branches[b].isDeleted
                /\ (b = ROOT \/ branches[b].noteId = ROOT \/ branches[b].noteId = h))
            => (r.threw /\ r.S = Store)

\* C6: deleteBranch on an absent branch or on a branch already deleted returns
\* false and changes nothing, whatever deleteId is passed: the deleteId the
\* branch was deleted under is not overwritten.
C6_DeleteIsIdempotent ==
    \A c \in DeleteCalls :
        LET r == DeleteResult(c)
            b == c[1]
        IN (b \notin DOMAIN branches \/ branches[b].isDeleted)
            => (r.S = Store /\ r.ret = FALSE /\ ~r.threw)

\* C6 witness: a branch is deleted under one deleteId while a call may pass
\* another one.
C6_Witness ==
    \E b \in DOMAIN branches, D \in DeleteIds :
        /\ branches[b].isDeleted
        /\ branches[b].deleteId # D
        /\ ~isAbsentOrDeleted(Store, ROOT)

\* C7: a deleteBranch call that returns, returns true exactly when it marked
\* the branch's note deleted; when the note keeps another non-deleted branch
\* it returns false and changes only the branch passed.
C7_ReturnsWhetherNoteDeleted ==
    \A c \in DeleteCalls :
        LET r == DeleteResult(c)
            b == c[1]
            D == c[2]
        IN ~r.threw =>
            /\ r.ret = TRUE <=>
                 /\ b \in DOMAIN branches
                 /\ ~notes[branches[b].noteId].isDeleted
                 /\ r.S.notes[branches[b].noteId].isDeleted
            /\ (b \in DOMAIN branches /\ ~branches[b].isDeleted
                    /\ ~IsLastBranch(Store, b))
                 => /\ r.ret = FALSE
                    /\ r.S.notes = notes
                    /\ r.S.attributes = attributes
                    /\ r.S.contents = contents
                    /\ \A d \in DOMAIN branches \ {b} : r.S.branches[d] = branches[d]
                    /\ r.S.branches[b] =
                         [branches[b] EXCEPT !.isDeleted = TRUE, !.deleteId = D]

\* C7 witness: one branch of a clone was deleted and its note, with a child,
\* an owned attribute and a targeting relation, is not deleted.
C7_Witness ==
    \E b, d, e \in DOMAIN branches, a1, a2 \in DOMAIN attributes :
        /\ branches[b].isDeleted /\ ~branches[d].isDeleted
        /\ branches[b].noteId = branches[d].noteId
        /\ ~notes[branches[b].noteId].isDeleted
        /\ branches[e].parentNoteId = branches[b].noteId /\ ~branches[e].isDeleted
        /\ attributes[a1].noteId = branches[b].noteId /\ ~attributes[a1].isDeleted
        /\ attributes[a2].value = branches[b].noteId /\ attributes[a2].type = "relation"
        /\ ~attributes[a2].isDeleted

---------------------------------------------------------------------------
(* createNewNote and createNewNoteWithTarget: claims C8 to C10 *)

CreateCalls == CreateParams(Store) \X BOOLEAN

CreateResult(c) == createNewNote(Store, c[1], c[2])

AllSpaces(title) == \A i \in DOMAIN title : title[i] = " "

\* C8: createNote is all-or-nothing. With a missing parent or a title that is
\* empty or only whitespace the call throws and the store is the one before
\* the call; whenever the call throws, also after its first write, no note,
\* content, branch or attribute of the call is in the store.
C8_CreateIsAllOrNothing ==
    \A c \in CreateCalls :
        LET r == CreateResult(c)
        IN /\ (c[1].parentNoteId \notin DOMAIN notes \/ AllSpaces(c[1].title))
                  => r.threw /\ r.S = Store
           /\ r.threw =>
                  /\ DOMAIN r.S.notes = DOMAIN notes
                  /\ DOMAIN r.S.contents = DOMAIN contents
                  /\ DOMAIN r.S.branches = DOMAIN branches
                  /\ DOMAIN r.S.attributes = DOMAIN attributes
                  /\ r.S = Store

\* C8 witness: after a creation, a call with a parent and a title throws when
\* its note row is already written, under a parent whose child: attributes
\* a call that succeeds copies.
C8_Witness ==
    /\ Created(Store) # {}
    /\ \E c \in CreateCalls :
        LET w == createNewNoteInTransaction(Store, c[1], c[2])
        IN /\ c[1].parentNoteId \in DOMAIN notes /\ ~AllSpaces(c[1].title)
           /\ w.threw /\ DOMAIN w.S.notes # DOMAIN notes
           /\ CreateResult(c).threw
           /\ \E a \in getAttributes(Store, c[1].parentNoteId, {}) : isChildAttribute(Store, a)

\* the non-deleted branches under a parent
Siblings(parentNoteId) ==
    {b \in DOMAIN branches :
        branches[b].parentNoteId = parentNoteId /\ ~branches[b].isDeleted}

\* C9: createNote without an explicit position places the new branch at 0
\* when the parent has no non-deleted child branch and at the greatest
\* position of the parent's non-deleted child branches plus 10 otherwise, so
\* strictly after every non-deleted sibling.
C9_DefaultPositionIsLast ==
    \A c \in CreateCalls :
        LET r == CreateResult(c)
            sib == Siblings(c[1].parentNoteId)
        IN (c[1].notePosition = NoPosition /\ ~r.threw) =>
              LET new == r.S.branches[r.ret.branchId]
              IN /\ r.ret.branchId \notin DOMAIN branches
                 /\ new.parentNoteId = c[1].parentNoteId /\ ~new.isDeleted
                 /\ sib = {} => new.notePosition = 0
                 /\ sib # {} =>
                      \E m \in sib :
                          /\ \A s \in sib : branches[s].notePosition <= branches[m].notePosition
                          /\ new.notePosition = branches[m].notePosition + 10
                 /\ \A s \in sib :
                      /\ r.S.branches[s] = branches[s]
                      /\ branches[s].notePosition < new.notePosition

\* C9 witness: after a creation, a call without a position succeeds under a
\* parent that has a non-deleted child branch and a deleted one at a greater
\* position.
C9_Witness ==
    /\ Created(Store) # {}
    /\ \E c \in CreateCalls :
        /\ c[1].notePosition = NoPosition /\ ~CreateResult(c).threw
        /\ Siblings(c[1].parentNoteId) # {}
        /\ \E d \in DOMAIN branches :
              /\ branches[d].parentNoteId = c[1].parentNoteId /\ branches[d].isDeleted
              /\ \A s \in Siblings(c[1].parentNoteId) :
                    branches[s].notePosition < branches[d].notePosition

\* the calls with target 'after' whose anchor is a non-deleted branch under
\* the parent of the new note
AfterCalls ==
    {c \in (DOMAIN branches) \X CreateAtParams(Store) :
        /\ ~branches[c[1]].isDeleted
        /\ branches[c[1]].parentNoteId = c[2].parentNoteId}

AfterResult(c) == createNewNoteWithTarget(Store, "after", c[1], c[2], TRUE)

\* the positions after the call: every sibling after the anchor moved by 10,
\* the others stayed, the new branch is at p + 10
ShiftedBy10(c, r) ==
    LET p == branches[c[1]].notePosition
    IN /\ \A s \in Siblings(c[2].parentNoteId) :
            r.S.branches[s] =
                [branches[s] EXCEPT !.notePosition =
                    IF branches[s].notePosition > p THEN @ + 10 ELSE @]
       /\ r.ret.branchId \notin DOMAIN branches
       /\ r.S.branches[r.ret.branchId].parentNoteId = c[2].parentNoteId
       /\ ~r.S.branches[r.ret.branchId].isDeleted
       /\ r.S.branches[r.ret.branchId].notePosition = p + 10

\* the existing siblings compare after the call as they did before
OrderPreserved(c, r) ==
    \A s, t \in Siblings(c[2].parentNoteId) :
        /\ branches[s].notePosition < branches[t].notePosition
              <=> r.S.branches[s].notePosition < r.S.branches[t].notePosition
        /\ branches[s].notePosition = branches[t].notePosition
              <=> r.S.branches[s].notePosition = r.S.branches[t].notePosition

\* C10 as stated: the positions are shifted, the order is preserved and the
\* new branch is ordered directly after the anchor, that is no other sibling
\* can be ordered between the anchor and the new branch.
C10_Original ==
    \A c \in AfterCalls :
        LET r == AfterResult(c)
        IN ~r.threw =>
              /\ ShiftedBy10(c, r)
              /\ OrderPreserved(c, r)
              /\ \A s \in Siblings(c[2].parentNoteId) \ {c[1]} :
                    \/ r.S.branches[s].notePosition < r.S.branches[c[1]].notePosition
                    \/ r.S.branches[s].notePosition
                          > r.S.branches[r.ret.branchId].notePosition

\* C10: createNoteAt with target 'after' and an anchor at position p moves by
\* exactly 10 every non-deleted sibling with a position greater than p, leaves
\* the siblings at p or before where they are and places the new branch at
\* p + 10; the existing siblings keep their relative order, the new branch is
\* after the anchor, and a sibling is between the anchor and the new branch
\* only if it shares the anchor's position p.
C10_AfterShiftsLaterSiblings ==
    \A c \in AfterCalls :
        LET r == AfterResult(c)
            posOf(b) == r.S.branches[b].notePosition
        IN ~r.threw =>
              /\ ShiftedBy10(c, r)
              /\ OrderPreserved(c, r)
              /\ posOf(c[1]) < posOf(r.ret.branchId)
              /\ \A s \in Siblings(c[2].parentNoteId) \ {c[1]} :
                    \/ posOf(s) < posOf(c[1])
                    \/ posOf(s) > posOf(r.ret.branchId)
                    \/ branches[s].notePosition = branches[c[1]].notePosition

\* C10 witness: after a creation, a call succeeds whose anchor has a sibling
\* before it, a sibling after it and a sibling at its own position.
C10_Witness ==
    /\ Created(Store) # {}
    /\ \E c \in AfterCalls :
        /\ ~AfterResult(c).threw
        /\ \E s, t, u \in Siblings(c[2].parentNoteId) \ {c[1]} :
              /\ branches[s].notePosition < branches[c[1]].notePosition
              /\ branches[t].notePosition > branches[c[1]].notePosition
              /\ branches[u].notePosition = branches[c[1]].notePosition

\* C10, the case the statement holds in: if no sibling shares the anchor's
\* position, no sibling can be ordered between the anchor and the new branch
C10_DirectlyAfterWithoutTie ==
    \A c \in AfterCalls :
        LET r == AfterResult(c)
        IN (/\ ~r.threw
            /\ \A s \in Siblings(c[2].parentNoteId) \ {c[1]} :
                  branches[s].notePosition # branches[c[1]].notePosition) =>
              \A s \in Siblings(c[2].parentNoteId) \ {c[1]} :
                  \/ r.S.branches[s].notePosition < r.S.branches[c[1]].notePosition
                  \/ r.S.branches[s].notePosition
                        > r.S.branches[r.ret.branchId].notePosition

---------------------------------------------------------------------------
(* createNewNoteWithTarget and copyChildAttributes: claims C11 and C12 *)

CreateAtCalls == Targets \X BranchArgs(Store) \X CreateAtParams(Store)

CreateAtResult(c) == createNewNoteWithTarget(Store, c[1], c[2], c[3], TRUE)

\* C11: when createNoteAt fails on a blank title, a missing parent or an
\* unknown target, the store is the one before the call: no position was
\* shifted, no note and no branch was created.
C11_FailedCreateAtLeavesStore ==
    \A c \in CreateAtCalls :
        LET r == CreateAtResult(c)
        IN (/\ r.threw
            /\ \/ AllSpaces(c[3].title)
               \/ c[3].parentNoteId \notin DOMAIN notes
               \/ c[1] \notin {"into", "after"})
              => r.S = Store

\* C11, the two causes that hold: a missing parent or an unknown target
\* leaves the store as it was
C11_MissingParentOrTargetLeavesStore ==
    \A c \in CreateAtCalls :
        LET r == CreateAtResult(c)
        IN (c[3].parentNoteId \notin DOMAIN notes \/ c[1] \notin {"into", "after"})
              => r.threw /\ r.S = Store

\* the attributes of a note in a store that saveLinks did not create
NonLinkAttributesOf(S, noteId) ==
    {a \in DOMAIN S.attributes :
        /\ S.attributes[a].noteId = noteId
        /\ S.attributes[a].name \notin
             {<<"imageLink">>, <<"internalLink">>, <<"includeNoteLink">>,
              <<"relationMapLink">>}}

NamedChild(a) == attributes[a].name # <<>> /\ Head(attributes[a].name) = "child:"

\* attribute x of store S is attribute a of the parent, copied as X
IsCopyOf(S, x, a) ==
    /\ S.attributes[x].name = Tail(attributes[a].name)
    /\ S.attributes[x].type = attributes[a].type
    /\ S.attributes[x].value = attributes[a].value
    /\ S.attributes[x].isInheritable = attributes[a].isInheritable
    /\ ~S.attributes[x].isDeleted

\* the new note holds one copy of each attribute of sources and nothing else
CopiesExactly(r, sources) ==
    LET copies == NonLinkAttributesOf(r.S, r.ret.noteId)
    IN /\ Cardinality(copies) = Cardinality(sources)
       /\ \A a \in sources : \E x \in copies : IsCopyOf(r.S, x, a)
       /\ \A x \in copies : \E a \in sources : IsCopyOf(r.S, x, a)
       /\ copies \cap DOMAIN attributes = {}

\* C12 as stated: the new note gets exactly the copies of the inheritable
\* attributes of the parent named child:X.
C12_Original ==
    \A c \in CreateCalls :
        LET r == CreateResult(c)
        IN ~r.threw =>
              CopiesExactly(r, {a \in getAttributes(Store, c[1].parentNoteId, {}) :
                                   NamedChild(a) /\ attributes[a].isInheritable})

\* C12: createNote copies onto the new note exactly the attributes of the
\* parent named child:X, those the parent owns, inheritable or not, and those
\* it inherits: for each one the new note gets one attribute named X with the
\* same kind, value and inheritable flag, and no attribute is copied from a
\* parent attribute that is not named child:X.
C12_CopiesChildAttributes ==
    \A c \in CreateCalls :
        LET r == CreateResult(c)
        IN ~r.threw =>
              CopiesExactly(r, {a \in getAttributes(Store, c[1].parentNoteId, {}) :
                                   NamedChild(a)})

\* C12 witness: a created note holds the copy of a child: attribute that is
\* not inheritable and the copy of one that is.
C12_Witness ==
    \E x, y \in DOMAIN attributes, a, b \in DOMAIN attributes :
        /\ attributes[x].noteId \in Created(Store)
        /\ attributes[y].noteId = attributes[x].noteId
        /\ NamedChild(a) /\ ~attributes[a].isInheritable /\ IsCopyOf(Store, x, a)
        /\ NamedChild(b) /\ attributes[b].isInheritable /\ IsCopyOf(Store, y, b)

---------------------------------------------------------------------------
(* duplicateSubtree: claims C13 to C16 *)

\* the calls of duplicateSubtree on a note other than root and an existing
\* parent, inside a protected session
DuplicateCalls ==
    {c \in (DOMAIN notes \ {ROOT}) \X (DOMAIN notes) :
        c[2] \in DuplicateParents(Store, c[1])}

DuplicateResult(c) == duplicateSubtree(Store, c[1], c[2], TRUE)

\* the source subtree: the note and its descendants
Subtree(N) == getDescendantNoteIds(Store, N)

\* the rows of the store before the call are in the store after it, unchanged
OldRowsUnchanged(S) ==
    /\ \A n \in DOMAIN notes : S.notes[n] = notes[n] /\ S.contents[n] = contents[n]
    /\ \A b \in DOMAIN branches : S.branches[b] = branches[b]
    /\ \A a \in DOMAIN attributes : S.attributes[a] = attributes[a]

\* K + 1 new notes, one per note of the source subtree, and no old row changed
DuplicatesWholeSubtree(c, r) ==
    LET new == DOMAIN r.S.notes \ DOMAIN notes
        sub == Subtree(c[1])
        m == getNoteIdMapping(Store, c[1])
    IN /\ ~r.threw
       /\ Cardinality(new) = Cardinality(sub)
       /\ \A x \in sub :
             \E y \in new : /\ r.S.notes[y].type = notes[x].type
                            /\ r.S.notes[y].mime = notes[x].mime
                            /\ y = m[x]
       /\ OldRowsUnchanged(r.S)

\* C13: for every note N other than root with K descendants and every
\* existing parent P, also a P inside the subtree of N, duplicateSubtree(N, P)
\* ends normally, creates exactly K + 1 notes with fresh ids, one per note of
\* the source subtree, and changes no note, branch or attribute of the source.
C13_DuplicatesWholeSubtree ==
    \A c \in DuplicateCalls : DuplicatesWholeSubtree(c, DuplicateResult(c))

\* no non-deleted branch places a deleted note
NoLiveBranchOfDeletedNote ==
    \A b \in DOMAIN branches :
        ~branches[b].isDeleted => ~notes[branches[b].noteId].isDeleted

\* C13, the case that holds: a source that is not deleted and a parent
\* outside its subtree, in a store where no deleted note is placed by a
\* non-deleted branch
C13_OutsideSubtree ==
    \A c \in DuplicateCalls :
        (/\ c[2] \notin Subtree(c[1])
         /\ ~notes[c[1]].isDeleted
         /\ NoLiveBranchOfDeletedNote)
            => DuplicatesWholeSubtree(c, DuplicateResult(c))

\* C13, the case that fails: with a parent inside the subtree of N the call
\* throws
C13_InsideSubtreeThrows ==
    \A c \in DuplicateCalls :
        (c[2] \in Subtree(c[1]) /\ ~notes[c[1]].isDeleted) => DuplicateResult(c).threw

\* the value the copy of attribute a has to hold when the source subtree is
\* sub and m gives the new ids of its notes
ExpectedValue(sub, m, a) ==
    IF attributes[a].type = "relation" /\ attributes[a].value \in sub
    THEN m[attributes[a].value]
    ELSE attributes[a].value

\* attribute x of store S is the copy of attribute a
IsDuplicateOf(sub, m, S, x, a) ==
    /\ S.attributes[x].type = attributes[a].type
    /\ S.attributes[x].name = attributes[a].name
    /\ S.attributes[x].isInheritable = attributes[a].isInheritable
    /\ ~S.attributes[x].isDeleted
    /\ S.attributes[x].value = ExpectedValue(sub, m, a)

\* C14: in duplicateSubtree each non-deleted owned attribute of a source note
\* is copied once to the new note of that source note; a copied relation into
\* the duplicated subtree points to the new id of its target, a copied
\* relation out of the subtree and every copied label keep their value.
C14_AttributesCopiedAndRemapped ==
    \A c \in DuplicateCalls :
        LET r == DuplicateResult(c)
            m == getNoteIdMapping(Store, c[1])
            sub == Subtree(c[1])
        IN ~r.threw =>
              \A x \in sub :
                  LET owned == {a \in DOMAIN attributes :
                                   attributes[a].noteId = x /\ ~attributes[a].isDeleted}
                      copies == {a \in DOMAIN r.S.attributes : r.S.attributes[a].noteId = m[x]}
                  IN /\ copies \cap DOMAIN attributes = {}
                     /\ Cardinality(copies) = Cardinality(owned)
                     /\ \A a \in owned : \E y \in copies : IsDuplicateOf(sub, m, r.S, y, a)
                     /\ \A y \in copies : \E a \in owned : IsDuplicateOf(sub, m, r.S, y, a)

\* C14 witness: a duplicated note holds a relation to another duplicated note
\* and a duplicated note holds a relation to a note that is no duplicate
C14_Witness ==
    \E x, y \in DOMAIN attributes :
        /\ attributes[x].type = "relation" /\ attributes[y].type = "relation"
        /\ attributes[x].noteId \in Created(Store)
        /\ attributes[x].value \in Created(Store)
        /\ attributes[y].noteId \in Created(Store)
        /\ attributes[y].value \in InitialNoteIds

\* the title ends with the suffix twice
HasRepeatedSuffix(title) == endsWith(title, DupSuffix \o <<" ">> \o DupSuffix)

\* C15: the title of the root of the duplicate ends with the suffix (dup)
\* once, also when the source is itself a duplicate, and the titles of the
\* duplicated descendants are those of their sources.
C15_OneDupSuffix ==
    \A c \in DuplicateCalls :
        LET r == DuplicateResult(c)
            m == getNoteIdMapping(Store, c[1])
            sub == Subtree(c[1])
        IN ~r.threw =>
              /\ r.ret.noteId = m[c[1]]
              /\ endsWith(r.S.notes[r.ret.noteId].title, DupSuffix)
              /\ ~HasRepeatedSuffix(r.S.notes[r.ret.noteId].title)
              /\ r.S.notes[r.ret.noteId].title \in
                    {notes[c[1]].title, notes[c[1]].title \o <<" ">> \o DupSuffix}
              /\ \A x \in sub \ {c[1]} : r.S.notes[m[x]].title = notes[x].title

\* C15 witness: a duplicate, its title ending with the suffix, is duplicated
\* and the title of its duplicate is the same
C15_Witness ==
    \E c \in DuplicateCalls :
        /\ c[1] \in Created(Store)
        /\ endsWith(notes[c[1]].title, DupSuffix)
        /\ ~DuplicateResult(c).threw
        /\ DuplicateResult(c).S.notes[DuplicateResult(c).ret.noteId].title = notes[c[1]].title

\* the non-deleted branches placing x under a note of the source subtree sub
BranchesInside(sub, x) ==
    {b \in DOMAIN branches :
        /\ branches[b].noteId = x /\ ~branches[b].isDeleted
        /\ branches[b].parentNoteId \in sub}

\* C16: a note of the source subtree placed in it by m non-deleted branches
\* gets one new note and m new branches to it, one under the new note of each
\* of its m parents.
C16_CloneDuplicatedOnce ==
    \A c \in DuplicateCalls :
        LET r == DuplicateResult(c)
            m == getNoteIdMapping(Store, c[1])
            sub == Subtree(c[1])
        IN ~r.threw =>
              /\ \A x, y \in sub : x # y => m[x] # m[y]
              /\ Cardinality(DOMAIN r.S.notes \ DOMAIN notes) = Cardinality(sub)
              /\ \A x \in sub \ {c[1]} :
                    LET new == {b \in DOMAIN r.S.branches \ DOMAIN branches :
                                   r.S.branches[b].noteId = m[x]}
                    IN /\ Cardinality(new) = Cardinality(BranchesInside(sub, x))
                       /\ {r.S.branches[b].parentNoteId : b \in new}
                             = {m[branches[b].parentNoteId] : b \in BranchesInside(sub, x)}
                       /\ \A b \in new : ~r.S.branches[b].isDeleted
              /\ Cardinality(DOMAIN r.S.branches \ DOMAIN branches)
                    = 1 + Cardinality(UNION {BranchesInside(sub, x) : x \in sub \ {c[1]}})

\* C16 witness: a duplicated note is placed under two duplicated notes and
\* has one copy of the label of its source
C16_Witness ==
    \E b, d \in DOMAIN branches :
        /\ b # d
        /\ branches[b].noteId = branches[d].noteId
        /\ branches[b].noteId \in Created(Store)
        /\ branches[b].parentNoteId \in Created(Store)
        /\ branches[d].parentNoteId \in Created(Store)
        /\ branches[b].parentNoteId # branches[d].parentNoteId
        /\ Cardinality({a \in DOMAIN attributes :
                           attributes[a].noteId = branches[b].noteId}) = 1

---------------------------------------------------------------------------
(* The consistency checker: claims C17 to C20.  A claim about a whole run   *)
(* is stated over the run that can be started in a reachable state with no  *)
(* run under way: runAllChecksAndFixers is applied to the state's store.    *)

\* no run is under way
NoRunUnderWay == checker.pc \in {"idle", "returned", "threw"}

\* the store was seeded with violations of the checker's table only, not
\* with a tree cycle
OnlyTableViolations ==
    BranchName(InitialNoteSeq[3], InitialNoteSeq[1]) \notin DOMAIN branches

\* a run found no violation
FoundNothing(run) ==
    /\ ~run.fixedIssues
    /\ ~run.unrecoveredConsistencyErrors
    /\ run.found = {}

\* C17: on every store holding any combination of the violations of the
\* checker's table, two runs in autofix mode with no fixer failing converge:
\* the second run finds no violation (fixedIssues and
\* unrecoveredConsistencyErrors are both false after it).
C17_TwoRunsConverge ==
    (NoRunUnderWay /\ OnlyTableViolations) =>
        LET first == runAllChecksAndFixers(Database, TRUE, {})
            second == runAllChecksAndFixers(first.S, TRUE, {})
        IN FoundNothing(second)

\* a non-deleted search note has a child
SearchNoteHasChildren(S) == query("searchNoteChildren", "", S) # {}

\* the statement of C17 holds on the stores where no search note has
\* children
C17_ConvergesWithoutSearchNotes ==
    (NoRunUnderWay /\ OnlyTableViolations /\ ~SearchNoteHasChildren(Database)) =>
        LET first == runAllChecksAndFixers(Database, TRUE, {})
            second == runAllChecksAndFixers(first.S, TRUE, {})
        IN ~first.unrecoveredConsistencyErrors /\ FoundNothing(second)

\* three runs converge on every store: the second run finds at most the
\* duplicates the first run made
C17_ThreeRunsConverge ==
    (NoRunUnderWay /\ OnlyTableViolations) =>
        LET first == runAllChecksAndFixers(Database, TRUE, {})
            second == runAllChecksAndFixers(first.S, TRUE, {})
            third == runAllChecksAndFixers(second.S, TRUE, {})
        IN /\ \A f \in second.found : f[1] = "duplicateBranches"
           /\ FoundNothing(third)

\* the findings of the run in autofix mode in which no repair fails
CleanRun == runAllChecksAndFixers(Database, TRUE, {})

\* the run in autofix mode in which the repair of one finding fails
FailingRun(f) == runAllChecksAndFixers(Database, TRUE, {f})

\* the failure of the repair of f degraded that finding only: the run went
\* on to its end, counted the finding unrecovered, and processed every
\* other finding of the clean run
DegradesOnly(f) ==
    LET run == FailingRun(f)
    IN /\ ~run.threw
       /\ run.failures = 1
       /\ run.unrecoveredConsistencyErrors
       /\ CleanRun.found \subseteq run.found

\* C18: when the repair of one finding fails, whatever the check that found
\* it, the run is not aborted: the finding is counted unrecovered and every
\* remaining finding and check is still processed.
C18_FailedRepairDegradesOneFinding ==
    NoRunUnderWay => \A f \in CleanRun.found : DegradesOnly(f)

\* the statement of C18 holds for the findings of the queries that go
\* through findAndFixIssues
C18_FindAndFixIssuesIsolatesFailures ==
    NoRunUnderWay =>
        \A f \in CleanRun.found : f[1] # "wronglyNamedAttribute" => DegradesOnly(f)

\* the queries of the battery that go through findAndFixIssues
QueryNames ==
    {"branchMissingNote", "branchMissingParent", "attributeMissingNote",
     "relationMissingTarget", "branchOfDeletedNote", "branchOfDeletedParent",
     "noteWithoutBranch", "duplicateBranches", "invalidNoteType", "missingContent",
     "nullContent", "missingRevisionContent", "searchNoteChildren", "emptyRelation",
     "invalidAttributeType", "attributeOfDeletedNote", "relationToDeletedNote",
     "missingEntityChange", "extraEntityChange"}

\* a failed repair in findAndFixIssues leaves no partial change and keeps
\* what was repaired before it: the store after the failed fixer is the
\* store before it, and the finding is counted unrecovered and not fixed
C18_FailedFixerIsRolledBack ==
    \A name \in QueryNames, i \in DOMAIN EntityNames :
        \A res \in query(name, EntityNames[i], Database) :
            LET K == Running(Database, ConsistencyChecks(TRUE))
                failed == fixIssue(K, name, EntityNames[i], res,
                                   {Finding(name, EntityNames[i], res)})
            IN /\ failed.S = Database
               /\ failed.unrecoveredConsistencyErrors
               /\ ~failed.fixedIssues

\* a failed UPDATE of findWronglyNamedAttributes aborts the run
C18_FailedRenameAborts ==
    NoRunUnderWay =>
        \A f \in CleanRun.found : f[1] = "wronglyNamedAttribute" => FailingRun(f).threw

\* the non-deleted relations with an empty value
EmptyRelations ==
    {a \in DOMAIN attributes :
        /\ ~attributes[a].isDeleted
        /\ attributes[a].type = "relation"
        /\ attributes[a].value = ""}

\* C19: for every non-deleted relation with an empty value, a run in
\* autofix mode (no repair failing) leaves the relation deleted, and a run in
\* report mode leaves its row unchanged and ends with
\* unrecoveredConsistencyErrors set.
C19_EmptyRelationDeletedOrReported ==
    NoRunUnderWay =>
        \A a \in EmptyRelations :
            LET fixed == runAllChecksAndFixers(Database, TRUE, {})
                reported == runAllChecksAndFixers(Database, FALSE, {})
            IN /\ fixed.S.attributes[a].isDeleted
               /\ fixed.fixedIssues
               /\ ~reported.threw
               /\ reported.S.attributes[a] = attributes[a]
               /\ reported.unrecoveredConsistencyErrors

\* a run in report mode has returned, flagged, with a relation with an empty
\* value still in the store, which a run in autofix mode deletes
C19_Witness ==
    /\ checker.pc = "returned"
    /\ ~checker.autoFix
    /\ checker.unrecoveredConsistencyErrors
    /\ EmptyRelations # {}
    /\ \A a \in EmptyRelations :
          runAllChecksAndFixers(Database, TRUE, {}).S.attributes[a].isDeleted

\* the methods executed in the run so far
ExecutedChecks == {checker.executed[i] : i \in DOMAIN checker.executed}

\* C20: tree cycle detection is executed only after all the basic checks
\* have finished and only if they left unrecoveredConsistencyErrors unset;
\* in a run where a fixer failed, or where a check found something in report
\* mode, it is not executed.
C20_TreeCyclesOnlyAfterChecksPassed ==
    /\ checker.pc = "checkTreeCycles" =>
          /\ checker.executed = BasicChecks
          /\ ~checker.unrecoveredConsistencyErrors
    /\ "checkTreeCycles" \in ExecutedChecks =>
          /\ Len(checker.executed) = Len(BasicChecks) + 1
          /\ SubSeq(checker.executed, 1, Len(BasicChecks)) = BasicChecks
    /\ (checker.failed \/ (~checker.autoFix /\ checker.found)) =>
          /\ checker.pc # "checkTreeCycles"
          /\ "checkTreeCycles" \notin ExecutedChecks

\* a run that repaired something has executed the tree cycle check as its
\* last method, in a behaviour where a fixer failed in the run before it
C20_Witness ==
    /\ checker.pc = "returned"
    /\ checker.executed = BasicChecks \o <<"checkTreeCycles">>
    /\ checker.fixedIssues
    /\ checker.failures > 0
    /\ ~checker.failed

---------------------------------------------------------------------------
(* The tree cycle check: claims C21 and C22.  The check is applied to the    *)
(* graph of the non-deleted branches of the state's store.                   *)

\* the parents the non-deleted branches give a note
parentsOf(S, noteId) ==
    {S.branches[b].parentNoteId :
        b \in {x \in DOMAIN S.branches :
                  ~S.branches[x].isDeleted /\ S.branches[x].noteId = noteId}}

\* the notes reached from a set of notes by parent links, those of the notes
\* in stop not being followed
RECURSIVE reachedBy(_, _, _, _)
reachedBy(S, frontier, seen, stop) ==
    LET next == UNION {parentsOf(S, n) : n \in frontier \ stop} \ seen
    IN IF next = {} THEN seen ELSE reachedBy(S, next, seen \cup next, stop)

\* the ancestors of a note through non-deleted branches
AncestorsOf(S, noteId) ==
    reachedBy(S, parentsOf(S, noteId), parentsOf(S, noteId), {})

\* the notes on the parent chains of a note up to root
ChainsOf(S, noteId) ==
    reachedBy(S, parentsOf(S, noteId), parentsOf(S, noteId), {ROOT})

\* the notes some non-deleted branch places
PlacedNotes(S) ==
    {S.branches[b].noteId : b \in {x \in DOMAIN S.branches : ~S.branches[x].isDeleted}}

\* some note is its own ancestor
HasTreeCycle(S) == \E n \in PlacedNotes(S) : n \in AncestorsOf(S, n)

\* root has exactly one non-deleted branch and its parent is 'none'
RootUnderNone(S) ==
    /\ parentsOf(S, ROOT) = {NONE}
    /\ Cardinality({b \in DOMAIN S.branches :
                       ~S.branches[b].isDeleted /\ S.branches[b].noteId = ROOT}) = 1

\* every parent chain reaches root without revisiting a note, and root's
\* only parent is 'none'
IsTree(S) ==
    /\ RootUnderNone(S)
    /\ \A n \in PlacedNotes(S) \ {ROOT} :
          /\ n \notin ChainsOf(S, n)
          /\ \A m \in (ChainsOf(S, n) \cup {n}) \ {ROOT} : parentsOf(S, m) # {}

\* the tree cycle check applied to the state's store with the flags unset
TreeCycleCheck ==
    checkTreeCycles(Running(Database, ConsistencyChecks(checker.autoFix)))

\* C21: on every graph of non-deleted branches the tree cycle check ends;
\* if some note is its own ancestor it sets unrecoveredConsistencyErrors;
\* if every parent chain reaches root without revisiting a note and the only
\* parent of root is 'none', it returns and sets nothing.
C21_TreeCyclesFlagged ==
    /\ HasTreeCycle(Database) => TreeCycleCheck.unrecoveredConsistencyErrors
    /\ IsTree(Database) =>
          /\ ~TreeCycleCheck.unrecoveredConsistencyErrors
          /\ ~TreeCycleCheck.threw
          /\ TreeCycleCheck.S = Database

\* the check has flagged a graph with a cycle that root is not part of and
\* that is not connected to root
C21_Witness ==
    /\ checker.pc = "returned"
    /\ checker.unrecoveredConsistencyErrors
    /\ RootUnderNone(Database)
    /\ \E n \in PlacedNotes(Database) \ {ROOT} :
          n \in AncestorsOf(Database, n) /\ ROOT \notin AncestorsOf(Database, n)

\* C22: when the parents of root given by non-deleted branches are not
\* exactly 'none' (one more parent, another parent, or no non-deleted branch
\* of root), the tree cycle check completes normally with
\* unrecoveredConsistencyErrors set.
C22_WrongRootParentFlagged ==
    ~RootUnderNone(Database) =>
        /\ ~TreeCycleCheck.threw
        /\ TreeCycleCheck.unrecoveredConsistencyErrors

\* the statement of C22 holds when some non-deleted branch places root
C22_RootWithBranchFlagged ==
    (~RootUnderNone(Database) /\ parentsOf(Database, ROOT) # {}) =>
        /\ ~TreeCycleCheck.threw
        /\ TreeCycleCheck.unrecoveredConsistencyErrors

\* when no non-deleted branch places root the check throws
C22_RootWithoutBranchThrows ==
    parentsOf(Database, ROOT) = {} => TreeCycleCheck.threw

---------------------------------------------------------------------------
(* The run in report mode: claim C25 *)

\* the run in report mode started in the state's store
ReportRun == runAllChecksAndFixers(Database, FALSE, {})

\* C25: a run in report mode changes no row of the store: the notes, the
\* branches, the attributes, the contents and the change records after the
\* run are those before it, fixedIssues stays unset, and every finding sets
\* unrecoveredConsistencyErrors.
C25_ReportModeChangesNothing ==
    NoRunUnderWay =>
        /\ ReportRun.S = Database
        /\ ~ReportRun.fixedIssues
        /\ ReportRun.found # {} => ReportRun.unrecoveredConsistencyErrors

\* a store with the root branch expanded set to collapsed
collapsed(S) == [S EXCEPT !.branches["root"].isExpanded = FALSE]

\* the statement of C25 holds but for the isExpanded column of the root
\* branch, which the run sets in either mode
C25_ReportModeOnlyExpandsRoot ==
    (NoRunUnderWay /\ "root" \in DOMAIN branches) =>
        /\ collapsed(ReportRun.S) = collapsed(Database)
        /\ ReportRun.S.branches["root"].isExpanded
        /\ ~ReportRun.fixedIssues
        /\ ReportRun.found # {} => ReportRun.unrecoveredConsistencyErrors

---------------------------------------------------------------------------
(* What a run reports, and what executes while a run is in progress        *)

\* the run left an error no repair recovered: the flag is set, a fixer
\* failed, or the run was cut short by an exception
LeftUnrecovered(r) ==
    r.unrecoveredConsistencyErrors \/ r.failed \/ r.threw

Broadcast(run) ==
    \E i \in DOMAIN ws : ws[i].type = "consistency-checks-failed" /\ ws[i].run = run

\* C23: every checker run whose runChecks has gone on after the exclusive
\* section has emitted the consistency-check-failed broadcast if and only
\* if the run left at least one unrecovered error
C23_BroadcastIffUnrecovered ==
    \A i \in DOMAIN sync_mutex.settled :
        sync_mutex.settled[i].continued =>
            (Broadcast(sync_mutex.settled[i].run)
                <=> LeftUnrecovered(sync_mutex.settled[i]))

\* a run whose callback returned is reported by its flag
C23_ReturnedRunBroadcastsFlag ==
    \A i \in DOMAIN sync_mutex.settled :
        (sync_mutex.settled[i].continued /\ ~sync_mutex.settled[i].threw) =>
            (Broadcast(sync_mutex.settled[i].run)
                <=> sync_mutex.settled[i].unrecoveredConsistencyErrors)

\* a message is sent only for a run that has released the exclusive section
C23_BroadcastAfterRelease ==
    \A m \in DOMAIN ws :
        \E i \in DOMAIN sync_mutex.settled :
            /\ sync_mutex.settled[i].run = ws[m].run
            /\ sync_mutex.settled[i].continued
            /\ (sync_mutex.held => checker.runs # ws[m].run)

\* a run that threw is never reported
C23_ThrownRunIsSilent ==
    \A i \in DOMAIN sync_mutex.settled :
        sync_mutex.settled[i].threw => ~Broadcast(sync_mutex.settled[i].run)

---------------------------------------------------------------------------
(* The effective attributes of a note                                      *)

idsOf(attrs) == {attrs[i].attributeId : i \in DOMAIN attrs}

ownIds(noteId) == idsOf(NoteShort_getOwnedAttributes(treeCache, noteId))

inheritableIds(ids) ==
    {id \in ids : id \in DOMAIN treeCache.attributes
                  /\ treeCache.attributes[id].isInheritable}

\* the loaded notes the template relations among ids refer to, other than noteId
templateTargets(ids, noteId) ==
    {treeCache.attributes[id].value :
        id \in {x \in ids : /\ x \in DOMAIN treeCache.attributes
                            /\ treeCache.attributes[x].type = RELATION
                            /\ treeCache.attributes[x].name = "template"}}
    \cap (DOMAIN treeCache.notes \ {noteId})

\* the parents of a note whose attributes it inherits
inheritedParents(noteId) ==
    IF noteId = ROOT THEN {}
    ELSE {p \in DOMAIN treeCache.notes :
            /\ includes(treeCache.notes[noteId].parents, p)
            /\ treeCache.notes[p].type # "search"}

\* one more round of inheritance: own attributes, the inheritable ones of
\* the parents, all those of the notes the template relations refer to
\* (the note's own template relations, or also those it inherits)
inheritedOnce(E, inheritedTemplates) ==
    [n \in DOMAIN treeCache.notes |->
        LET fromParents == UNION {inheritableIds(E[p]) : p \in inheritedParents(n)}
            relations == IF inheritedTemplates THEN ownIds(n) \cup fromParents
                         ELSE ownIds(n)
        IN  ownIds(n) \cup fromParents
                      \cup UNION {E[t] : t \in templateTargets(relations, n)}]

RECURSIVE effective(_, _)
effective(E, inheritedTemplates) ==
    LET next == inheritedOnce(E, inheritedTemplates)
    IN  IF next = E THEN E ELSE effective(next, inheritedTemplates)

\* the effective attributes of every note: the least sets closed under
\* inheritance from parents and from the notes of template relations
Effective(inheritedTemplates) ==
    effective([n \in DOMAIN treeCache.notes |-> {}], inheritedTemplates)

Returned(noteId) == NoteShort_getAttributes(treeCache, noteAttributeCache, noteId)

\* no note is its own ancestor by parent links
ParentsFormTree ==
    LET links == {x \in (DOMAIN treeCache.notes) \X (DOMAIN treeCache.notes) :
                    includes(treeCache.notes[x[1]].parents, x[2])}
        graph == [branches |->
                    [x \in links |-> [noteId |-> x[1], parentNoteId |-> x[2],
                                      isDeleted |-> FALSE]]]
    IN  \A n \in DOMAIN treeCache.notes : n \notin AncestorsOf(graph, n)

\* the notes each note takes attributes from: its parents and the notes its
\* own or inherited template relations refer to
Sources ==
    LET E == Effective(TRUE)
    IN  [n \in DOMAIN treeCache.notes |->
            {p \in DOMAIN treeCache.notes : includes(treeCache.notes[n].parents, p)}
            \cup templateTargets(E[n], n)]

\* no note takes attributes from itself, directly or through other notes
SourcesAcyclic ==
    LET sources == Sources
        links == {x \in (DOMAIN treeCache.notes) \X (DOMAIN treeCache.notes) :
                    x[2] \in sources[x[1]]}
        graph == [branches |->
                    [x \in links |-> [noteId |-> x[1], parentNoteId |-> x[2],
                                      isDeleted |-> FALSE]]]
    IN  \A n \in DOMAIN treeCache.notes : n \notin AncestorsOf(graph, n)

NothingMemoized == noteAttributeCache.attributes = <<>>

\* every template relation is the note's own: none is inheritable
TemplatesNotInherited ==
    \A id \in DOMAIN treeCache.attributes :
        (treeCache.attributes[id].type = RELATION
         /\ treeCache.attributes[id].name = "template")
            => ~treeCache.attributes[id].isInheritable

NoAttributeChanged == calls = 0

\* C26: on a tree of parent links, getAttributes on a note returns exactly
\* its own attributes, the inheritable attributes of its ancestors not
\* reached through a search parent, and, transitively, all attributes of
\* the notes template relations refer to (the note's own relations, or
\* also those it inherits)
C26_ExactlyEffectiveAttributes ==
    (ParentsFormTree /\ NoAttributeChanged) =>
        LET own == Effective(FALSE)
            inherited == Effective(TRUE)
        IN  \A noteId \in DOMAIN treeCache.notes :
                idsOf(Returned(noteId).ret) \in {own[noteId], inherited[noteId]}

\* where no note takes attributes from itself through parents and template
\* relations, getAttributes returns the effective attributes, the template
\* relations a note inherits counted
C26_ExactOnAcyclicSources ==
    (SourcesAcyclic /\ NoAttributeChanged) =>
        LET inherited == Effective(TRUE)
        IN  \A noteId \in DOMAIN treeCache.notes :
                idsOf(Returned(noteId).ret) = inherited[noteId]

\* and where moreover no template relation is inheritable, these are the
\* attributes of the notes its own template relations refer to
C26_OwnTemplatesOnAcyclicSources ==
    (SourcesAcyclic /\ NoAttributeChanged /\ TemplatesNotInherited) =>
        LET own == Effective(FALSE)
        IN  \A noteId \in DOMAIN treeCache.notes :
                idsOf(Returned(noteId).ret) = own[noteId]

\* the paths of a traversal: lists of distinct loaded notes
TraversalPaths ==
    {<<>>} \cup {<<n>> : n \in DOMAIN treeCache.notes}
           \cup {<<n, m>> : n, m \in DOMAIN treeCache.notes}

\* C27: on every graph of parent and template links getAttributes returns
\* without exhausting the call stack, and a note that is on the traversal
\* path contributes an empty list and is not expanded
C27_GetAttributesTerminates ==
    /\ \A noteId \in DOMAIN treeCache.notes : ~Returned(noteId).threw
    /\ \A noteId \in DOMAIN treeCache.notes, path \in TraversalPaths :
          (\E i \in DOMAIN path : path[i] = noteId) =>
              __getCachedAttributes(treeCache, noteAttributeCache, noteId, path)
                  = Attrs(noteAttributeCache, <<>>, FALSE)

\* a template chain leads from a note back to it, and from a note to its
\* parent and back, and the lists of all notes have been computed
C27_Witness ==
    /\ \E n \in DOMAIN treeCache.notes :
          \E t \in templateTargets(ownIds(n), n) : n \in templateTargets(ownIds(t), t)
    /\ DOMAIN noteAttributeCache.attributes = DOMAIN treeCache.notes

\* the list getAttributes computes for a note when no list is memoized for it
recomputed(tc, cache, noteId) ==
    NoteShort_getAttributes(tc,
        [attributes |-> [n \in DOMAIN cache.attributes \ {noteId} |->
                            cache.attributes[n]]],
        noteId).ret

\* C28: when the own attributes of a note have changed and its
\* invalidateAttributeCache has been called, getAttributes on the note
\* returns the list recomputed from the current attributes, not a list
\* memoized before the change
C28_InvalidatedIsRecomputed ==
    [][\A noteId \in DOMAIN treeCache.notes :
          treeCache'.notes[noteId].attributes # treeCache.notes[noteId].attributes =>
              NoteShort_getAttributes(treeCache', noteAttributeCache', noteId).ret
                  = recomputed(treeCache', noteAttributeCache', noteId)]_vars

\* invalidateAttributeCache leaves the memoized lists as they are
C28_InvalidateKeepsMemoizedLists ==
    [][treeCache' # treeCache => noteAttributeCache' = noteAttributeCache]_vars

\* a note whose list was not memoized when its attributes changed gets the
\* list computed from its current attributes
C28_NotMemoizedIsRecomputed ==
    [][\A noteId \in DOMAIN treeCache.notes :
          (/\ treeCache'.notes[noteId].attributes # treeCache.notes[noteId].attributes
           /\ noteId \notin DOMAIN noteAttributeCache.attributes) =>
              NoteShort_getAttributes(treeCache', noteAttributeCache', noteId).ret
                  = recomputed(treeCache', noteAttributeCache', noteId)]_vars

---------------------------------------------------------------------------
(* What erasure removes and what it leaves                                 *)

ErasableTables == {"notes", "branches", "attributes"}

JournalledTables == {"notes", "contents", "branches", "attributes"}

entityNameOf(table) == IF table = "contents" THEN "note_contents" ELSE table

\* the rows of a table that are in E and no longer in E2
erasedRows(E, E2, table) == DOMAIN E[table] \ DOMAIN E2[table]

\* the change records of a row
recordsOf(changes, table, id) ==
    {c \in changes : c.entityName = entityNameOf(table) /\ c.entityId = id}

\* C29: after a note is erased, or all deleted notes are, their note rows,
\* content rows, every branch with their noteId and every attribute they
\* own are absent, and every erased row still has its change record, the
\* same record with its erased flag set
C29_ErasedRowsKeepFlaggedRecords ==
    \A noteIdsToErase \in {{n} : n \in DOMAIN notes}
                            \cup {deletedBefore(notes, now)} :
        LET E2 == eraseNotes(Database, noteIdsToErase)
        IN  /\ DOMAIN E2.notes \cap noteIdsToErase = {}
            /\ DOMAIN E2.contents \cap noteIdsToErase = {}
            /\ \A b \in DOMAIN E2.branches : E2.branches[b].noteId \notin noteIdsToErase
            /\ \A a \in DOMAIN E2.attributes :
                  E2.attributes[a].noteId \notin noteIdsToErase
            /\ \A table \in JournalledTables :
                  \A id \in erasedRows(Database, E2, table) :
                      /\ recordsOf(entity_changes, table, id) # {}
                      /\ recordsOf(E2.entity_changes, table, id)
                            = {[c EXCEPT !.isErased = TRUE] :
                                  c \in recordsOf(entity_changes, table, id)}

\* a sweep has erased a note that had a branch and an attribute, and notes
\* that can be erased are left
C29_Witness ==
    /\ \E c \in entity_changes : c.entityName = "notes" /\ c.isErased
    /\ \E c \in entity_changes : c.entityName = "branches" /\ c.isErased
    /\ \E c \in entity_changes : c.entityName = "attributes" /\ c.isErased
    /\ \E n \in DOMAIN notes :
          /\ \E b \in DOMAIN branches : branches[b].noteId = n
          /\ \E a \in DOMAIN attributes : attributes[a].noteId = n

\* C30: the erasure sweep removes only rows that are soft-deleted and were
\* last saved before the retention time began: no non-deleted note, branch
\* or attribute and no row deleted within the retention time is removed,
\* the rows removed with an erased note included
C30_OnlyExpiredDeletedRowsErased ==
    \A eraseEntitiesAfterTimeInSeconds \in 0..MaxAge :
        LET E2 == eraseDeletedEntities(Database, now, eraseEntitiesAfterTimeInSeconds)
        IN  \A table \in ErasableTables :
                \A id \in erasedRows(Database, E2, table) :
                    /\ Database[table][id].isDeleted
                    /\ Database[table][id].utcDateModified
                          <= now - eraseEntitiesAfterTimeInSeconds

\* the notes a sweep erases are deleted and were last saved before the
\* retention time began; a branch or an attribute it erases is such a row
\* too, or belongs to a note it erases
C30_ErasedWithExpiredNotes ==
    \A eraseEntitiesAfterTimeInSeconds \in 0..MaxAge :
        LET cutoffDate == now - eraseEntitiesAfterTimeInSeconds
            E2 == eraseDeletedEntities(Database, now, eraseEntitiesAfterTimeInSeconds)
        IN  /\ erasedRows(Database, E2, "notes") = deletedBefore(notes, cutoffDate)
            /\ \A table \in {"branches", "attributes"} :
                  \A id \in erasedRows(Database, E2, table) :
                      \/ id \in deletedBefore(Database[table], cutoffDate)
                      \/ Database[table][id].noteId \in deletedBefore(notes, cutoffDate)

---------------------------------------------------------------------------
(* deleteBranch and undeleteNote together                                  *)

\* the deleted flags of the branches, notes and attributes of a store
deletedFlags(S) ==
    [branches |-> [b \in DOMAIN S.branches |-> S.branches[b].isDeleted],
     notes |-> [n \in DOMAIN S.notes |-> S.notes[n].isDeleted],
     attributes |-> [a \in DOMAIN S.attributes |-> S.attributes[a].isDeleted]]

\* the store after deleteBranch(b, D) and then undeleteNote(b's note, D)
deletedAndUndeleted(c) ==
    undeleteNote(DeleteResult(c).S, branches[c[1]].noteId, c[2])

\* C37: deleteBranch(b, D) with a deleteId no earlier deletion used, when it
\* returns, followed by undeleteNote on b's note with D, leaves every
\* branch, note and attribute with the deleted flag it had before
C37_DeleteUndeleteRoundTrip ==
    \A c \in DeleteCalls :
        (/\ c[1] \in DOMAIN branches
         /\ c[2] \notin UsedDeleteIds(Store)
         /\ ~DeleteResult(c).threw) =>
            deletedFlags(deletedAndUndeleted(c)) = deletedFlags(Store)

\* a note with a clone in its subtree was deleted and undeleted, and can be
\* deleted again with its subtree under a deleteId not used before
C37_Witness ==
    \E c \in DeleteCalls :
        /\ c[1] \in DOMAIN branches
        /\ c[2] \notin UsedDeleteIds(Store)
        /\ ~DeleteResult(c).threw
        /\ ~notes[branches[c[1]].noteId].isDeleted
        /\ notes[branches[c[1]].noteId].deleteId # NoDeleteId
        /\ DeleteResult(c).S.notes[branches[c[1]].noteId].isDeleted
        /\ \E b1, b2 \in DOMAIN branches :
              /\ b1 # b2
              /\ branches[b1].noteId = branches[b2].noteId
              /\ branches[b1].parentNoteId = branches[c[1]].noteId
              /\ DeleteResult(c).S.branches[b1].isDeleted
              /\ ~branches[b1].isDeleted

\* C38: with every deletion under a deleteId of its own, every non-deleted
\* attribute is owned by a non-deleted note and every non-deleted relation
\* targets a non-deleted note
C38_LiveAttributesHaveLiveEnds ==
    \A a \in DOMAIN attributes :
        ~attributes[a].isDeleted =>
            /\ ~notes[attributes[a].noteId].isDeleted
            /\ attributes[a].type = "relation" =>
                  (attributes[a].value \in DOMAIN notes
                   /\ ~notes[attributes[a].value].isDeleted)

\* deleteBranch alone keeps it: a call on a store where it holds leaves a
\* store where it holds
C38_DeleteKeepsLiveEnds ==
    C38_LiveAttributesHaveLiveEnds =>
        \A c \in DeleteCalls :
            LET T == DeleteResult(c).S
            IN  \A a \in DOMAIN T.attributes :
                    ~T.attributes[a].isDeleted =>
                        /\ ~T.notes[T.attributes[a].noteId].isDeleted
                        /\ T.attributes[a].type = "relation" =>
                              ~T.notes[T.attributes[a].value].isDeleted

---------------------------------------------------------------------------
(* The cascade of deleteBranch over a subtree with clones                  *)

\* the store with the order of every list of child branches reversed
reversed(S) ==
    [S EXCEPT !.branches =
        [b \in DOMAIN S.branches |->
            [S.branches[b] EXCEPT !.notePosition = 0 - @]]]

\* the notes that lose their last non-deleted branch when those of Del are
\* deleted: Del, and the non-deleted notes placed only under notes of Del
RECURSIVE deletedWith(_, _)
deletedWith(S, Del) ==
    LET more == {Y \in DOMAIN S.notes \ Del :
                    /\ ~S.notes[Y].isDeleted
                    /\ getBranches(S, Y) # {}
                    /\ \A b \in getBranches(S, Y) : S.branches[b].parentNoteId \in Del}
    IN  IF more = {} THEN Del ELSE deletedWith(S, Del \cup more)

\* what the cascade must do to the branches and the notes, for a call that
\* deletes the note of its branch: T is the store it leaves
CascadeIsExact(S, T, b, D) ==
    LET Del == deletedWith(S, {S.branches[b].noteId})
    IN  /\ \A Y \in Del : T.notes[Y].isDeleted /\ T.notes[Y].deleteId = D
        /\ \A x \in DOMAIN S.branches :
              IF ~S.branches[x].isDeleted
                 /\ (x = b \/ S.branches[x].parentNoteId \in Del)
              THEN T.branches[x].isDeleted /\ T.branches[x].deleteId = D
              ELSE T.branches[x] = S.branches[x]
        /\ \A Y \in DOMAIN S.notes \ Del : T.notes[Y] = S.notes[Y]

\* the attributes of the descendants that stay are as before
SurvivorsKeepAttributes(S, T, b) ==
    LET Del == deletedWith(S, {S.branches[b].noteId})
    IN  \A a \in DOMAIN S.attributes :
            (/\ S.attributes[a].noteId \notin Del
             /\ S.branches[b].noteId \in AncestorsOf(S, S.attributes[a].noteId))
                => T.attributes[a] = S.attributes[a]

\* the attributes of the notes that stay are as before, but for their
\* non-deleted relations to a note the cascade deleted, which are deleted
SurvivorsKeepAttributesButRelations(S, T, b, D) ==
    LET Del == deletedWith(S, {S.branches[b].noteId})
    IN  \A a \in DOMAIN S.attributes :
            S.attributes[a].noteId \notin Del =>
                IF /\ ~S.attributes[a].isDeleted
                   /\ S.attributes[a].type = "relation"
                   /\ S.attributes[a].value \in Del
                THEN T.attributes[a].isDeleted /\ T.attributes[a].deleteId = D
                ELSE T.attributes[a] = S.attributes[a]

\* the calls that delete the note of their branch
CascadeCalls ==
    {c \in DeleteCalls : IsLastBranch(Store, c[1]) /\ ~DeleteResult(c).threw}

\* C40 as stated: when deleteBranch deletes a note, in either order of the
\* child branches, the descendants placed only under deleted notes of the
\* subtree are deleted under the same deleteId, every child branch under a
\* deleted note is deleted, and a descendant that keeps a branch outside
\* stays as it was with all its attributes and its own subtree
C40_Original ==
    \A c \in CascadeCalls :
        /\ CascadeIsExact(Store, DeleteResult(c).S, c[1], c[2])
        /\ SurvivorsKeepAttributes(Store, DeleteResult(c).S, c[1])

\* C40: when deleteBranch deletes a note, in either order of the child
\* branches, the descendants placed only under deleted notes of the subtree
\* are deleted under the same deleteId, every child branch under a deleted
\* note is deleted, and a descendant that keeps a branch outside stays as it
\* was with its own subtree and its attributes, except that its relations
\* to a deleted note are deleted
C40_CascadeIsExact ==
    \A c \in CascadeCalls :
        LET T == DeleteResult(c).S
            R == deleteBranch(reversed(Store), c[1], c[2], c[3])
        IN  /\ CascadeIsExact(Store, T, c[1], c[2])
            /\ SurvivorsKeepAttributesButRelations(Store, T, c[1], c[2])
            /\ ~R.threw
            /\ R.S = reversed(T)

\* a note was deleted with a child that had no other place, while another
\* child, placed outside the subtree too, stays non-deleted
C40_Witness ==
    \E N, Y, Z \in DOMAIN notes, b1, b2, b3 \in DOMAIN branches :
        /\ notes[N].isDeleted /\ ~notes[Y].isDeleted /\ notes[Z].isDeleted
        /\ notes[Z].deleteId = notes[N].deleteId
        /\ branches[b1].parentNoteId = N /\ branches[b1].noteId = Y
        /\ branches[b1].isDeleted /\ branches[b1].deleteId = notes[N].deleteId
        /\ branches[b2].noteId = Y /\ ~branches[b2].isDeleted
        /\ branches[b3].parentNoteId = N /\ branches[b3].noteId = Z
        /\ branches[b3].isDeleted /\ branches[b3].deleteId = notes[N].deleteId

---------------------------------------------------------------------------
(* The tree of a store reached by requests                                 *)

\* every non-deleted note but root has a non-deleted branch, every
\* non-deleted branch has a non-deleted note and a non-deleted parent note,
\* and no two non-deleted branches place one note under one parent
TreeIsConsistent(S) ==
    /\ \A n \in DOMAIN S.notes \ {ROOT} :
          ~S.notes[n].isDeleted => getBranches(S, n) # {}
    /\ \A b \in DOMAIN S.branches :
          (~S.branches[b].isDeleted /\ b # ROOT) =>
              /\ S.branches[b].noteId \in DOMAIN S.notes
              /\ ~S.notes[S.branches[b].noteId].isDeleted
              /\ S.branches[b].parentNoteId \in DOMAIN S.notes
              /\ ~S.notes[S.branches[b].parentNoteId].isDeleted
    /\ \A b, c \in DOMAIN S.branches :
          (/\ ~S.branches[b].isDeleted /\ ~S.branches[c].isDeleted
           /\ S.branches[b].noteId = S.branches[c].noteId
           /\ S.branches[b].parentNoteId = S.branches[c].parentNoteId) => b = c

\* C36: in every state reached by requests from a consistent store, every
\* non-deleted note but root has a non-deleted branch, every non-deleted
\* branch has a non-deleted note and a non-deleted parent note, and there
\* is at most one non-deleted branch per note and parent
C36_TreeStaysConsistent == TreeIsConsistent(Store)

\* a deleteBranch call that returns and an undeleteNote call leave a
\* consistent tree consistent
C36_ConsistentUnlessThrown ==
    TreeIsConsistent(Store) =>
        /\ \A c \in DeleteCalls :
              ~DeleteResult(c).threw => TreeIsConsistent(DeleteResult(c).S)
        /\ \A c \in UndeleteCalls : TreeIsConsistent(UndeleteResult(c))

---------------------------------------------------------------------------
(* Search notes under the requests that create notes                       *)

\* notes are created in a tree in which the second note, which has no
\* child, is a search note
InitSearch ==
    /\ \E p \in CreateShapes : \E b \in BranchArgs(InitialStore(p)) :
        LET S == deleteBranch(InitialStore(p), b, DeleteIdName(1), ROOT).S
        IN StoreIs([S EXCEPT !.notes[InitialNoteSeq[2]].type = "search"])
    /\ calls = 0
    /\ NoCheckRuns

SpecSearch == InitSearch /\ [][NextCreate]_vars

\* the non-deleted child branches of the non-deleted search notes
searchNoteChildren(S) ==
    {b \in DOMAIN S.branches :
        /\ ~S.branches[b].isDeleted
        /\ S.branches[b].parentNoteId \in DOMAIN S.notes
        /\ ~S.notes[S.branches[b].parentNoteId].isDeleted
        /\ S.notes[S.branches[b].parentNoteId].type = "search"}

\* C35: in every state reached by requests from a store in which no
\* non-deleted search note has a non-deleted child branch, no non-deleted
\* search note has a non-deleted child branch
C35_SearchNotesStayChildless == searchNoteChildren(Store) = {}

---------------------------------------------------------------------------
(* The memoized lists of the resolver against the lists computed afresh    *)

\* the list getAttributes computes for a note when nothing is memoized
computedAfresh(noteId) ==
    NoteShort_getAttributes(treeCache, [attributes |-> <<>>], noteId).ret

\* C39: on a tree of parent links and while no attribute changes,
\* getAttributes on a note returns, whatever getAttributes calls on other
\* notes came before, the attributes it returns when nothing is memoized
C39_CacheIsTransparent ==
    (ParentsFormTree /\ NoAttributeChanged) =>
        \A noteId \in DOMAIN treeCache.notes :
            idsOf(Returned(noteId).ret) = idsOf(computedAfresh(noteId))

\* where no note takes attributes from itself through parents and template
\* relations, the memoized lists are the lists computed afresh
C39_TransparentOnAcyclicSources ==
    (SourcesAcyclic /\ NoAttributeChanged) =>
        \A noteId \in DOMAIN treeCache.notes :
            Returned(noteId).ret = computedAfresh(noteId)

---------------------------------------------------------------------------
(* updateNote: revisions, image downloads and the links of a note          *)

\* the option noteRevisionSnapshotTimeInterval, in units of time
noteRevisionSnapshotTimeInterval == 2

\* the latest date of a behaviour with revisions
MaxClock == 5

\* the external images a content refers to
NumUrls == 2

\* the requests that save a content with images
MaxSaves == 2

Urls == {"u" \o ToString(i) : i \in 1..NumUrls}

\* what saving a note changes besides the store
Editing ==
    [note_revisions |-> note_revisions,
     downloadImagePromises |-> downloadImagePromises,
     imageUrlToNoteIdMapping |-> imageUrlToNoteIdMapping,
     getImage |-> getImage, timers |-> timers]

\* no revision, no download and no patch-up waiting
NoEditing ==
    [note_revisions |-> {}, downloadImagePromises |-> <<>>,
     imageUrlToNoteIdMapping |-> <<>>, getImage |-> <<>>, timers |-> {}]

\* what a save leaves: the store, the revisions and the downloads
Edited(S, E, threw) == [S |-> S, E |-> E, threw |-> threw]

\* Note.hasLabel(name): a label of the note, owned or inherited
hasLabel(S, noteId, name) ==
    \E a \in getAttributes(S, noteId, {}) :
        S.attributes[a].type = "label" /\ S.attributes[a].name = <<name>>

\* mutant: a revision is made at every save
saveNoteRevision_always(S, revisions, noteId, date) ==
    revisions \cup {[noteId |-> noteId, utcDateCreated |-> date]}

\* saveNoteRevision(note) at a date: the revisions after it
saveNoteRevision(S, revisions, noteId, date) ==
    LET note == S.notes[noteId]
    IN  IF note.type = "file" \/ note.type = "image"
             \/ hasLabel(S, noteId, "disableVersioning")
        THEN revisions
        ELSE LET revisionCutoff == date - noteRevisionSnapshotTimeInterval
                 existingNoteRevisionId ==
                     {r \in revisions : /\ r.noteId = noteId
                                        /\ r.utcDateCreated >= revisionCutoff}
                 msSinceDateCreated == date - note.utcDateCreated
             IN  IF /\ existingNoteRevisionId = {}
                    /\ msSinceDateCreated >= noteRevisionSnapshotTimeInterval
                 THEN revisions \cup {[noteId |-> noteId, utcDateCreated |-> date]}
                 ELSE revisions

\* an <img> of a content whose src is an external url
externalImage(url) == [name |-> "img", value |-> url]

\* mutant: what the content held besides the url is lost
replaceUrl_dropsRest(content, url, imageNoteId) ==
    IF externalImage(url) \in content
    THEN {[name |-> "imageLink", value |-> imageNoteId]}
    ELSE content

\* replaceUrl(content, url, imageNote): every src that is the url becomes
\* api/images/<noteId>/<title>, which findImageLinks finds as an image link
replaceUrl(content, url, imageNoteId) ==
    IF externalImage(url) \in content
    THEN (content \ {externalImage(url)})
            \cup {[name |-> "imageLink", value |-> imageNoteId]}
    ELSE content

\* the non-deleted image notes that carry the label imageUrl = url
existingImages(S, url) ==
    {n \in DOMAIN S.notes :
        /\ ~S.notes[n].isDeleted
        /\ S.notes[n].type = "image"
        /\ \E a \in getOwnedAttributes(S, n) :
              /\ S.attributes[a].type = "label"
              /\ S.attributes[a].name = <<"imageUrl">>
              /\ S.attributes[a].value = url}

\* mutant: a download under way is not noticed
inProgress_never(E, url) == FALSE

\* url in downloadImagePromises: a download of the url was started
inProgress(E, url) == url \in DOMAIN E.downloadImagePromises

\* downloadImage(noteId, url) up to its await: the request is sent
downloadImage_requested(E, noteId, url) ==
    [E EXCEPT
        !.downloadImagePromises =
            withRow(@, url, [state |-> "pending", noteId |-> noteId]),
        !.getImage =
            withRow(@, url, IF url \in DOMAIN @ THEN @[url] + 1 ELSE 1)]

\* the loop of downloadImages over the matches of the regular expression
RECURSIVE downloadImagesOf(_, _, _, _, _)
downloadImagesOf(S, E, noteId, content, matches) ==
    IF matches = <<>> THEN [E |-> E, content |-> content]
    ELSE LET url == Head(matches)
             mapped == url \in DOMAIN E.imageUrlToNoteIdMapping
             imageNoteId == E.imageUrlToNoteIdMapping[url]
             usable == /\ mapped
                       /\ imageNoteId \in DOMAIN S.notes
                       /\ ~S.notes[imageNoteId].isDeleted
             E1 == IF mapped /\ ~usable
                   THEN [E EXCEPT !.imageUrlToNoteIdMapping =
                            [u \in DOMAIN @ \ {url} |-> @[u]]]
                   ELSE E
             existing == existingImages(S, url)
         IN  IF usable
             THEN downloadImagesOf(S, E, noteId,
                                   replaceUrl(content, url, imageNoteId), Tail(matches))
             ELSE IF existing # {}
             THEN LET existingImage == CHOOSE n \in existing : TRUE
                  IN  downloadImagesOf(
                          S, [E1 EXCEPT !.imageUrlToNoteIdMapping =
                                            withRow(@, url, existingImage)],
                          noteId, replaceUrl(content, url, existingImage), Tail(matches))
             ELSE IF inProgress(E1, url)
             THEN downloadImagesOf(S, E1, noteId, content, Tail(matches))
             ELSE downloadImagesOf(S, downloadImage_requested(E1, noteId, url),
                                   noteId, content, Tail(matches))

\* downloadImages(noteId, content): an image may occur more than once in a
\* content, so every url is matched twice; the patch-up waits for every
\* promise there is and for its timeout
downloadImages(S, E, noteId, content) ==
    LET urls == {x.value : x \in {y \in content : y.name = "img"}}
        out == downloadImagesOf(S, E, noteId, content, rowsOf(urls) \o rowsOf(urls))
    IN  [E |-> [out.E EXCEPT !.timers =
                   @ \cup {[noteId |-> noteId,
                            promises |-> DOMAIN out.E.downloadImagePromises]}],
         content |-> out.content]

\* saveLinks(note, content) with the images of a readable text note
saveLinksAndImages(S, E, noteId, content, sessionAvailable) ==
    LET note == S.notes[noteId]
        out == IF note.type = "text" /\ ~(note.isProtected /\ ~sessionAvailable)
               THEN downloadImages(S, E, noteId, content)
               ELSE [E |-> E, content |-> content]
    IN  [S |-> saveLinks(S, noteId, out.content, sessionAvailable),
         E |-> out.E, content |-> out.content]

\* scanForLinks(note) with the images: the content is set when it changed
scanForLinksAndImages(S, E, noteId, sessionAvailable) ==
    IF noteId \notin DOMAIN S.notes THEN Edited(S, E, FALSE)
    ELSE IF S.notes[noteId].type \notin {"text", "relation-map"} THEN Edited(S, E, FALSE)
    ELSE IF S.notes[noteId].isProtected /\ ~sessionAvailable THEN Edited(S, E, FALSE)
    ELSE LET out == saveLinksAndImages(S, E, noteId, S.contents[noteId],
                                       sessionAvailable)
         IN  Edited([out.S EXCEPT !.contents[noteId] = out.content], out.E, FALSE)

\* updateNote(noteId, noteUpdates) at a date: a revision is saved, then the
\* title and the protection, then the links of the new content and the
\* content; a note whose content is not available is not changed
updateNote(S, E, noteId, noteUpdates, sessionAvailable, date) ==
    IF S.notes[noteId].isProtected /\ ~sessionAvailable
    THEN Edited(S, E, TRUE)
    ELSE LET E1 == [E EXCEPT !.note_revisions =
                       saveNoteRevision(S, @, noteId, date)]
             content == IF /\ S.notes[noteId].type \in {"file", "image"}
                           /\ S.notes[noteId].isProtected # noteUpdates.isProtected
                        THEN S.contents[noteId]
                        ELSE noteUpdates.content
             S1 == [S EXCEPT !.notes[noteId].title = noteUpdates.title,
                             !.notes[noteId].isProtected = noteUpdates.isProtected]
         IN  IF content = NULL_CONTENT THEN Edited(S1, E1, FALSE)
             ELSE LET out == saveLinksAndImages(S1, E1, noteId, content,
                                                sessionAvailable)
                  IN  Edited([out.S EXCEPT !.contents[noteId] = out.content],
                             out.E, FALSE)

\* downloadImage(noteId, url) after its await: the request failed, or the
\* image is saved as an image note under the note, labelled with the url
\* and mapped to the url; the promise resolves in both cases
downloadImage(S, E, url, failed) ==
    LET noteId == E.downloadImagePromises[url].noteId
        E1 == [E EXCEPT !.downloadImagePromises[url].state = "settled",
                        !.getImage[url] = @ - 1]
        saved == createNewNote(S, [BaseParams(noteId) EXCEPT
                                      !.type = "image", !.content = {},
                                      !.title = <<"image">>], TRUE)
        S1 == [saved.S EXCEPT !.attributes =
                  withRow(@, newAttributeId(saved.S),
                          AttributeRow(saved.ret.noteId, "label", <<"imageUrl">>,
                                       url, FALSE))]
    IN  IF failed \/ saved.threw THEN Edited(S, E1, FALSE)
        ELSE Edited(S1, [E1 EXCEPT !.imageUrlToNoteIdMapping =
                            withRow(@, url, saved.ret.noteId)], FALSE)

\* the urls mapped to an image note that is there and not deleted
replaceableUrls(S, E) ==
    {url \in DOMAIN E.imageUrlToNoteIdMapping :
        /\ E.imageUrlToNoteIdMapping[url] \in DOMAIN S.notes
        /\ ~S.notes[E.imageUrlToNoteIdMapping[url]].isDeleted}

RECURSIVE replaceUrls(_, _, _)
replaceUrls(content, E, urls) ==
    IF urls = <<>> THEN content
    ELSE replaceUrls(replaceUrl(content, Head(urls),
                                E.imageUrlToNoteIdMapping[Head(urls)]),
                     E, Tail(urls))

\* the function downloadImages leaves to run after the downloads and the
\* timeout, in one transaction: the urls of the content as it is now are
\* replaced, and the content is set and scanned only when it changed
patchUp(S, E, noteId) ==
    IF noteId \notin DOMAIN S.notes THEN Edited(S, E, TRUE)
    ELSE LET origContent == S.contents[noteId]
             updatedContent ==
                 replaceUrls(origContent, E, rowsOf(replaceableUrls(S, E)))
         IN  IF updatedContent = origContent THEN Edited(S, E, FALSE)
             ELSE scanForLinksAndImages(
                      [S EXCEPT !.contents[noteId] = updatedContent], E, noteId, TRUE)

\* the store, the revisions and the downloads after a request, or after a
\* function that was left to run later
SavedBy(out, request) ==
    /\ notes' = out.S.notes
    /\ contents' = out.S.contents
    /\ branches' = out.S.branches
    /\ attributes' = out.S.attributes
    /\ calls' = IF request /\ out.S # Store THEN calls + 1 ELSE calls
    /\ entity_changes' = changesOf(out.S)
    /\ note_revisions' = out.E.note_revisions
    /\ downloadImagePromises' = out.E.downloadImagePromises
    /\ imageUrlToNoteIdMapping' = out.E.imageUrlToNoteIdMapping
    /\ getImage' = out.E.getImage
    /\ timers' = out.E.timers
    /\ UNCHANGED <<checker, sync_mutex, ws, frontend, now>>

Saved(out) == SavedBy(out, TRUE)

\* the notes of a store, created at the dates given
createdAt(S, dates) ==
    [S EXCEPT !.notes = [n \in DOMAIN @ |->
                            [utcDateCreated |-> dates[n]] @@ @[n]]]

\* what a caller passes to updateNote for a note: its title and protection
\* as they are and a content
NoteUpdates(S, noteId, content) ==
    [title |-> S.notes[noteId].title, isProtected |-> S.notes[noteId].isProtected,
     content |-> content]

\* the targets the links of a content name: the notes and a note that is
\* not in the store
LinkTargets == InitialNoteIds \cup {"missing"}

\* the contents a caller saves for a note: no link or one link of the first
\* kind the type of the note has
SavedContents(S, noteId) ==
    LET names == LinkNames(S.notes[noteId].type)
        name == IF names = {} THEN "internalLink"
                ELSE CHOOSE x \in names : x \in {"internalLink", "relationMapLink"}
        links == {[name |-> name, value |-> v] : v \in LinkTargets \ {noteId}}
    IN  {c \in SUBSET links : Cardinality(c) <= 1}

\* a request saves a note with a new content
UpdateNote ==
    /\ calls < MaxCalls
    /\ \E noteId \in InitialNoteIds :
       \E content \in SavedContents(Store, noteId) :
          Saved(updateNote(Store, Editing, noteId,
                           NoteUpdates(Store, noteId, content), TRUE, now))

\* the links of a note are scanned again
ScanForLinks ==
    /\ calls < MaxCalls
    /\ \E noteId \in DOMAIN notes :
          Saved(scanForLinksAndImages(Store, Editing, noteId, TRUE))

\* the notes are a text note and a text note under root and a relation map
\* under root or under the first note, and the first note has been saved
\* with some content and its patch-up has run
InitLinks ==
    /\ \E p \in {q \in SinglePlacements : q[InitialNoteSeq[1]] = {ROOT}
                                           /\ q[InitialNoteSeq[3]] = {ROOT}} :
          LET S == createdAt(
                      [InitialStore(p) EXCEPT
                          !.notes[InitialNoteSeq[2]] = NoteRow("relation-map", <<"t">>)],
                      [n \in {ROOT} \cup InitialNoteIds |-> 0])
          IN  \E content \in SavedContents(S, InitialNoteSeq[1]) :
                 StoreIs(updateNote(S, NoEditing, InitialNoteSeq[1],
                                    NoteUpdates(S, InitialNoteSeq[1], content),
                                    TRUE, 0).S)
    /\ calls = 0
    /\ NoCheckRuns

\* a request saves a note, with the content it has, at the current date
UpdateNoteNow ==
    \E noteId \in InitialNoteIds :
        Saved(updateNote(Store, Editing, noteId,
                         NoteUpdates(Store, noteId, contents[noteId]), TRUE, now))

ClockTicks ==
    /\ now < MaxClock
    /\ now' = now + 1
    /\ UNCHANGED <<notes, contents, branches, attributes, calls, entity_changes,
                   checker, sync_mutex, ws, frontend, editing>>

\* at date 1 the notes are under root: a text note created at date 0 or 1,
\* a file or an image, and a text note that carries the label
\* disableVersioning or does not
InitRevisions ==
    /\ \E type \in {"file", "image"}, date \in 0..1, disableVersioning \in BOOLEAN :
          LET p == [n \in InitialNoteIds |-> {ROOT}]
              S == createdAt(
                      [InitialStore(p) EXCEPT
                          !.notes[InitialNoteSeq[2]] = NoteRow(type, <<"t">>)],
                      [n \in {ROOT} \cup InitialNoteIds |->
                          IF n = InitialNoteSeq[1] THEN date ELSE 0])
          IN  StoreIs(IF disableVersioning
                      THEN [S EXCEPT !.attributes =
                               withRow(@, newAttributeId(S),
                                       AttributeRow(InitialNoteSeq[3], "label",
                                                    <<"disableVersioning">>, "", FALSE))]
                      ELSE S)
    /\ calls = 0
    /\ entity_changes = changesOf(Store)
    /\ checker = ConsistencyChecks(FALSE)
    /\ NothingEdited
    /\ sync_mutex = [held |-> FALSE, waiting |-> <<>>, settled |-> <<>>]
    /\ ws = <<>>
    /\ treeCache = [notes |-> <<>>, attributes |-> <<>>]
    /\ noteAttributeCache = [attributes |-> <<>>]
    /\ now = 1

NextRevisions == UpdateNoteNow \/ ClockTicks

SpecRevisions == InitRevisions /\ [][NextRevisions]_vars

\* the contents a caller saves for a note with images: a text and the
\* first external images, none or more
ImageContents ==
    {{[name |-> "text", value |-> t]}
        \cup {externalImage("u" \o ToString(i)) : i \in 1..k} :
            t \in {"a"}, k \in 0..NumUrls}

\* the notes whose content holds images: the text notes
ImageNotes == {InitialNoteSeq[1], InitialNoteSeq[3]}

\* a request saves a text note with a content that holds external images
UpdateNoteWithImages ==
    /\ calls < MaxSaves
    /\ \E noteId \in ImageNotes, content \in ImageContents :
          Saved(updateNote(Store, Editing, noteId,
                           NoteUpdates(Store, noteId, content), TRUE, now))

\* request.getImage returns for a url, with the image or with an error
DownloadReturns ==
    \E url \in DOMAIN getImage, failed \in BOOLEAN :
        /\ getImage[url] > 0
        /\ SavedBy(downloadImage(Store, Editing, url, failed), FALSE)

\* a patch-up whose promises have all resolved
Ready(t) ==
    \A url \in t.promises : downloadImagePromises[url].state = "settled"

\* the downloads a patch-up waited for are over and its timeout has passed
PatchUp ==
    \E t \in timers :
        /\ Ready(t)
        /\ SavedBy(patchUp(Store, [Editing EXCEPT !.timers = @ \ {t}], t.noteId),
                   FALSE)

\* a request deletes the branch of an image note
DeleteImage ==
    \E b \in DOMAIN branches, D \in CallDeleteIds(Store) \ UsedDeleteIds(Store) :
        /\ calls < MaxSaves
        /\ ~branches[b].isDeleted
        /\ notes[branches[b].noteId].type = "image"
        /\ Saved(Edited(deleteBranch(Store, b, D, ROOT).S, Editing, FALSE))

\* the text notes and the relation map are under root, with no content
InitImages ==
    /\ StoreIs(createdAt(
                  [InitialStore([n \in InitialNoteIds |-> {ROOT}]) EXCEPT
                      !.notes[InitialNoteSeq[2]] = NoteRow("relation-map", <<"t">>)],
                  [n \in {ROOT} \cup InitialNoteIds |-> 0]))
    /\ calls = 0
    /\ NoCheckRuns

NextImages == UpdateNoteWithImages \/ DownloadReturns \/ PatchUp \/ DeleteImage

SpecImages == InitImages /\ [][NextImages]_vars

NextLinks == UpdateNote \/ ScanForLinks \/ DeleteBranchDistinct \/ UndeleteNote

SpecLinks == InitLinks /\ [][NextLinks]_vars

\* the (name, value) pairs of the non-deleted link relations of a note
liveLinks(S, noteId) ==
    {<<S.attributes[a].name, S.attributes[a].value>> :
        a \in {x \in getLinks(S, noteId) : ~S.attributes[x].isDeleted}}

\* the links of the content of a note whose target is a non-deleted note
linksToLiveNotes(S, noteId) ==
    {<<(<<l.name>>), l.value>> :
        l \in {x \in S.contents[noteId] :
                  /\ x.name \in LinkNames(S.notes[noteId].type)
                  /\ x.value \in DOMAIN S.notes
                  /\ ~S.notes[x.value].isDeleted}}

ScannedNotes ==
    {n \in DOMAIN notes : notes[n].type \in {"text", "relation-map"}}

\* a non-deleted link relation of the note names a deleted or missing note
HasStaleLink(S, noteId) ==
    \E l \in liveLinks(S, noteId) :
        l[2] \notin DOMAIN S.notes \/ S.notes[l[2]].isDeleted

\* C31: after scanForLinks on a readable text or relation-map note, its
\* non-deleted link relations are exactly the links of its content whose
\* target is a non-deleted note, one relation per link, and scanning it
\* again changes nothing
C31_LinksAreThoseOfTheContent ==
    \A n \in ScannedNotes :
        LET T == scanForLinks(Store, n, TRUE)
        IN  /\ liveLinks(T, n) = linksToLiveNotes(Store, n)
            /\ Cardinality({a \in getLinks(T, n) : ~T.attributes[a].isDeleted})
                  = Cardinality(liveLinks(T, n))
            /\ scanForLinks(T, n, TRUE) = T

\* it does so for the notes none of whose non-deleted link relations names
\* a deleted or missing note
C31_ExactWithoutStaleLinks ==
    \A n \in ScannedNotes :
        ~HasStaleLink(Store, n) =>
            LET T == scanForLinks(Store, n, TRUE)
            IN  /\ liveLinks(T, n) = linksToLiveNotes(Store, n)
                /\ Cardinality({a \in getLinks(T, n) : ~T.attributes[a].isDeleted})
                      = Cardinality(liveLinks(T, n))
                /\ scanForLinks(T, n, TRUE) = T

\* and in every case it creates or undeletes no link relation to a deleted
\* or missing note, keeps one relation per link and deletes the links that
\* are not in the content
C31_NoLinkToDeletedIsAdded ==
    \A n \in ScannedNotes :
        LET T == scanForLinks(Store, n, TRUE)
        IN  /\ linksToLiveNotes(Store, n) \subseteq liveLinks(T, n)
            /\ liveLinks(T, n) \ linksToLiveNotes(Store, n)
                  \subseteq {l \in liveLinks(Store, n) :
                                \E x \in contents[n] : <<(<<x.name>>), x.value>> = l}
            /\ scanForLinks(T, n, TRUE) = T

---------------------------------------------------------------------------
(* The revisions updateNote makes                                          *)

revisionsOf(noteId) == {r \in note_revisions : r.noteId = noteId}

\* saveNoteRevision makes a revision of the note at the current date
MakesRevision(noteId) ==
    saveNoteRevision(Store, note_revisions, noteId, now) # note_revisions

\* what holds of every note a revision is made of, but for its age
Versioned(noteId) ==
    /\ notes[noteId].type \notin {"file", "image"}
    /\ ~hasLabel(Store, noteId, "disableVersioning")
    /\ \A r \in revisionsOf(noteId) :
          r.utcDateCreated < now - noteRevisionSnapshotTimeInterval

\* no two revisions of a note are within one interval of each other
RevisionsApart ==
    \A r, q \in note_revisions :
        (r.noteId = q.noteId /\ r.utcDateCreated < q.utcDateCreated) =>
            q.utcDateCreated - r.utcDateCreated > noteRevisionSnapshotTimeInterval

\* C32 as stated: a revision is made only of a note that is no file and no
\* image, has no label disableVersioning, has no revision within the
\* trailing interval and is older than the interval; no two revisions of a
\* note are within one interval of each other and none is within one
\* interval of the creation of the note
C32_RevisionOnlyAfterInterval ==
    /\ \A n \in InitialNoteIds :
          MakesRevision(n) =>
              /\ Versioned(n)
              /\ now - notes[n].utcDateCreated > noteRevisionSnapshotTimeInterval
    /\ RevisionsApart
    /\ \A r \in note_revisions :
          r.utcDateCreated - notes[r.noteId].utcDateCreated
              > noteRevisionSnapshotTimeInterval

\* C32: a revision is made only of a note that is no file and no image, has
\* no label disableVersioning, has no revision within the trailing interval
\* and whose age is at least the interval; no two revisions of a note are
\* within one interval of each other and none is made less than one
\* interval after the creation of the note
C32_RevisionOnlyFromInterval ==
    /\ \A n \in InitialNoteIds :
          MakesRevision(n) =>
              /\ Versioned(n)
              /\ now - notes[n].utcDateCreated >= noteRevisionSnapshotTimeInterval
    /\ RevisionsApart
    /\ \A r \in note_revisions :
          r.utcDateCreated - notes[r.noteId].utcDateCreated
              >= noteRevisionSnapshotTimeInterval

\* a note has two revisions, the first made when its age was the interval
C32_Witness ==
    \E r, q \in note_revisions :
        /\ r.noteId = q.noteId
        /\ r.utcDateCreated < q.utcDateCreated
        /\ r.utcDateCreated - notes[r.noteId].utcDateCreated
              = noteRevisionSnapshotTimeInterval

---------------------------------------------------------------------------
(* The downloads of external images and the patch-up after them            *)

\* the image notes, deleted or not, saved for a url
imageNotesOf(url) ==
    {n \in DOMAIN notes :
        /\ notes[n].type = "image"
        /\ \E a \in DOMAIN attributes :
              /\ attributes[a].noteId = n
              /\ attributes[a].name = <<"imageUrl">>
              /\ attributes[a].value = url}

\* C33: at most one download of a url is under way at any time, a save of
\* any note with any content starts no download of a url whose download is
\* under way, and at most one image note is saved for a url
C33_OneDownloadPerUrl ==
    /\ \A url \in DOMAIN getImage : getImage[url] <= 1
    /\ \A url \in Urls : Cardinality(imageNotesOf(url)) <= 1
    /\ \A n \in ImageNotes, content \in ImageContents :
          LET out == updateNote(Store, Editing, n, NoteUpdates(Store, n, content),
                                TRUE, now)
          IN  \A url \in DOMAIN getImage :
                  getImage[url] > 0 => out.E.getImage[url] = getImage[url]

\* the download of a url is under way and both text notes refer to the url
C33_Witness ==
    \E url \in DOMAIN getImage :
        /\ getImage[url] = 1
        /\ \A n \in ImageNotes : externalImage(url) \in contents[n]

\* a content with every url for which a non-deleted image note is saved
\* replaced by the link to that note, and nothing else changed
Replaced(content) ==
    {x \in content : ~(x.name = "img" /\ existingImages(Store, x.value) # {})}
        \cup {[name |-> "imageLink", value |-> n] :
                n \in UNION {existingImages(Store, x.value) :
                                x \in {y \in content : y.name = "img"}}}

\* C34: whenever a patch-up runs, the content of its note becomes the
\* content the note has at that moment with the urls of the downloaded
\* images replaced and nothing else changed, no other content changes, and
\* nothing is written when there is nothing to replace
C34_PatchUpKeepsEdits ==
    \A t \in timers :
        Ready(t) =>
            LET E0 == [Editing EXCEPT !.timers = @ \ {t}]
                out == patchUp(Store, E0, t.noteId)
            IN  /\ out.S.contents =
                      [contents EXCEPT ![t.noteId] = Replaced(contents[t.noteId])]
                /\ Replaced(contents[t.noteId]) = contents[t.noteId] =>
                      (out.S = Store /\ out.E = E0)

\* a patch-up that has something to replace is about to run for a note
\* that was saved again while its images were downloaded
C34_Witness ==
    \E t, u \in timers :
        /\ t.noteId = u.noteId
        /\ t.promises # u.promises
        /\ Ready(t)
        /\ Replaced(contents[t.noteId]) # contents[t.noteId]

====
